---- MODULE Spec2Model ----
(***************************************************************************)
(* Model of the StockAnalysisKit data engine: the fetch orchestrator      *)
(* (app.py fetch_multiple_stocks), the per-symbol pipeline                 *)
(* (stock_service.py get_stock_bundle), the issue collector, the realtime  *)
(* fallback merge and the TTL financial cache (persistence.py).            *)
(*                                                                         *)
(* Python values are modelled as strings and records: None is the string   *)
(* "null", a dict is a record, a list is a sequence.  A key that a dict    *)
(* does not have is a field its record does not have.                      *)
(***************************************************************************)
EXTENDS Integers, Sequences, FiniteSets, TLC

VARIABLES
    cache,      \* table financial_cache: symbol -> row
    now,        \* datetime.now(timezone.utc), in whole hours
    api,        \* SpecCache: the last call of the cache API and its result
    lastw,      \* SpecCache: per symbol, the arguments of the last write
    mrg,        \* SpecMerge: the last call of _merge_realtime_snapshot
    fetch,      \* SpecFetch: the last call of get_stock_bundle
    req,        \* Spec: the request handed to fetch_multiple_stocks
    units,      \* Spec: the futures submitted to the pool, one per symbol
    results,    \* Spec: `results`, in completion order
    out,        \* Spec: what fetch_multiple_stocks returned
    thr,        \* SpecWriters: the threads calling the cache concurrently
    lock,       \* SpecWriters: the thread holding _DB_LOCK, or IdleLock
    calc        \* SpecCalc: the last call of a pure function, with its result

vars == <<cache, now, api, lastw, mrg, fetch, req, units, results, out, thr, lock, calc>>

Null == "null"

----------------------------------------------------------------------------
(* Text helpers over the finite alphabet of tokens the model draws from.   *)

\* str.strip() on the model's tokens
Strip(s) ==
    CASE s = " "  -> ""
      [] s = " a" -> "a"
      [] s = "A " -> "A"
      [] OTHER    -> s

\* str.upper() on the model's tokens
Upper(s) ==
    CASE s = "a"  -> "A"
      [] s = "b"  -> "B"
      [] s = "c"  -> "C"
      [] s = " a" -> " A"
      [] s = "a$" -> "A$"
      [] OTHER    -> s

----------------------------------------------------------------------------
(* persistence.py: the financial cache.                                    *)
(*                                                                         *)
(* A row of financial_cache is [present, payload_json, updated_at].        *)
(* payload_json is the stored text, kept as what json.loads makes of it:   *)
(* kind "object" (a dict with the two keys), "array" (valid JSON that is   *)
(* no object) or "garbage" (json.loads raises).  updated_at is the stored  *)
(* text: ok = FALSE when datetime.fromisoformat raises, else t hours.      *)

\* A snapshot dict is [kind, id, currency]: id names its content ("empty" is
\* {}), currency is dict.get("currency").  kind tells a dict from None and
\* from a list, which is all isinstance(value, dict) looks at.
EmptyDict == [kind |-> "dict", id |-> "empty", currency |-> Null]
NoneVal   == [kind |-> "none", id |-> "none", currency |-> Null]

IsDict(v) == v.kind = "dict"

Dict(id) == [kind |-> "dict", id |-> id, currency |-> Null]

NoRow == [present |-> FALSE,
          payload_json |-> [kind |-> "garbage", financial |-> NoneVal, ai_financial_context |-> NoneVal],
          updated_at |-> [ok |-> FALSE, t |-> 0]]

\* json.dumps of a payload dict: the text of an object with the two keys
json_dumps(payload) ==
    [kind |-> "object",
     financial |-> payload.financial,
     ai_financial_context |-> payload.ai_financial_context]

\* json.loads: [raised, value]; the value of an object is a dict payload,
\* the value of other valid JSON is a list
json_loads(text) ==
    CASE text.kind = "garbage" ->
            [raised |-> TRUE, value |-> [kind |-> "none", financial |-> NoneVal, ai_financial_context |-> NoneVal]]
      [] text.kind = "array" ->
            [raised |-> FALSE, value |-> [kind |-> "list", financial |-> NoneVal, ai_financial_context |-> NoneVal]]
      [] OTHER ->
            [raised |-> FALSE,
             value |-> [kind |-> "dict",
                        financial |-> text.financial,
                        ai_financial_context |-> text.ai_financial_context]]

\* the value None where a payload is expected
NoPayload == [kind |-> "none", financial |-> NoneVal, ai_financial_context |-> NoneVal]

CacheKeys == {"A", "B", "C", "A$"}

\* a read whose guard lets ttl_hours = 0 through (< 0 for <= 0)
get_cached_strict_guard(c, symbol, ttl_hours, t) ==
    LET target == Upper(Strip(symbol))
    IN  IF ttl_hours < 0 THEN NoPayload
        ELSE IF target = "" THEN NoPayload
        ELSE LET row == IF target \in DOMAIN c THEN c[target] ELSE NoRow
             IN  IF ~row.present THEN NoPayload
                 ELSE IF ~row.updated_at.ok THEN NoPayload
                 ELSE IF t - row.updated_at.t > ttl_hours THEN NoPayload
                 ELSE LET parsed == json_loads(row.payload_json)
                      IN  IF parsed.raised THEN NoPayload
                          ELSE IF parsed.value.kind # "dict" THEN NoPayload
                          ELSE parsed.value

\* a read that expires an entry already at age = ttl_hours (>= for >)
get_cached_expire_early(c, symbol, ttl_hours, t) ==
    LET target == Upper(Strip(symbol))
    IN  IF ttl_hours <= 0 THEN NoPayload
        ELSE IF target = "" THEN NoPayload
        ELSE LET row == IF target \in DOMAIN c THEN c[target] ELSE NoRow
             IN  IF ~row.present THEN NoPayload
                 ELSE IF ~row.updated_at.ok THEN NoPayload
                 ELSE IF t - row.updated_at.t >= ttl_hours THEN NoPayload
                 ELSE LET parsed == json_loads(row.payload_json)
                      IN  IF parsed.raised THEN NoPayload
                          ELSE IF parsed.value.kind # "dict" THEN NoPayload
                          ELSE parsed.value

\* a read that trusts the row: no except branch around the timestamp, no
\* isinstance check on the decoded payload
get_cached_trusts_row(c, symbol, ttl_hours, t) ==
    LET target == Upper(Strip(symbol))
    IN  IF ttl_hours <= 0 THEN NoPayload
        ELSE IF target = "" THEN NoPayload
        ELSE LET row == IF target \in DOMAIN c THEN c[target] ELSE NoRow
             IN  IF ~row.present THEN NoPayload
                 ELSE IF row.updated_at.ok /\ t - row.updated_at.t > ttl_hours THEN NoPayload
                 ELSE LET parsed == json_loads(row.payload_json)
                      IN  IF parsed.raised THEN NoPayload
                          ELSE parsed.value

\* get_cached_financial_bundle(symbol, ttl_hours) evaluated at time t
get_cached_financial_bundle(c, symbol, ttl_hours, t) ==
    LET target == Upper(Strip(symbol))
    IN  IF ttl_hours <= 0 THEN NoPayload
        ELSE IF target = "" THEN NoPayload
        ELSE LET row == IF target \in DOMAIN c THEN c[target] ELSE NoRow
             IN  IF ~row.present THEN NoPayload
                 ELSE IF ~row.updated_at.ok THEN NoPayload
                 ELSE IF t - row.updated_at.t > ttl_hours THEN NoPayload
                 ELSE LET parsed == json_loads(row.payload_json)
                      IN  IF parsed.raised THEN NoPayload
                          ELSE IF parsed.value.kind # "dict" THEN NoPayload
                          ELSE parsed.value

\* a write that stores the financial snapshot but an empty context
set_cached_drops_context(c, symbol, financial, ai_financial_context, t) ==
    LET target  == Upper(Strip(symbol))
        payload == [financial |-> IF IsDict(financial) THEN financial ELSE EmptyDict,
                    ai_financial_context |-> EmptyDict]
    IN  IF target = "" THEN c
        ELSE [c EXCEPT ![target] =
                [present |-> TRUE,
                 payload_json |-> json_dumps(payload),
                 updated_at |-> [ok |-> TRUE, t |-> t]]]

\* an upsert whose conflict branch updates the financial part only, leaving
\* the context an earlier write stored
set_cached_keeps_old_context(c, symbol, financial, ai_financial_context, t) ==
    LET target  == Upper(Strip(symbol))
        old     == IF target \in DOMAIN c THEN c[target] ELSE NoRow
        payload == [financial |-> IF IsDict(financial) THEN financial ELSE EmptyDict,
                    ai_financial_context |->
                        IF old.present THEN old.payload_json.ai_financial_context
                        ELSE IF IsDict(ai_financial_context) THEN ai_financial_context
                        ELSE EmptyDict]
    IN  IF target = "" THEN c
        ELSE [c EXCEPT ![target] =
                [present |-> TRUE,
                 payload_json |-> json_dumps(payload),
                 updated_at |-> [ok |-> TRUE, t |-> t]]]

\* set_cached_financial_bundle(symbol, financial, ai_financial_context) at time t:
\* the table after the upsert
set_cached_financial_bundle(c, symbol, financial, ai_financial_context, t) ==
    LET target  == Upper(Strip(symbol))
        payload == [financial |-> IF IsDict(financial) THEN financial ELSE EmptyDict,
                    ai_financial_context |->
                        IF IsDict(ai_financial_context) THEN ai_financial_context ELSE EmptyDict]
    IN  IF target = "" THEN c
        ELSE [c EXCEPT ![target] =
                [present |-> TRUE,
                 payload_json |-> json_dumps(payload),
                 updated_at |-> [ok |-> TRUE, t |-> t]]]

----------------------------------------------------------------------------
(* stock_service.py: the realtime fallback merge.  A realtime snapshot is  *)
(* a function from the keys it has to their values; Null is None.          *)

\* dict.get(key): None for a key the dict does not have
DictGet(d, k) == IF k \in DOMAIN d THEN d[k] ELSE Null

\* a merge in which the fallback's non-null value replaces the primary's
merge_fallback_wins(primary, fallback) ==
    [k \in DOMAIN primary \cup DOMAIN fallback |->
        IF DictGet(fallback, k) # Null THEN fallback[k] ELSE DictGet(primary, k)]

\* _merge_realtime_snapshot(primary, fallback): merged starts as a copy of
\* primary; each key of fallback is stored where merged.get(key) is None
_merge_realtime_snapshot(primary, fallback) ==
    [k \in DOMAIN primary \cup DOMAIN fallback |->
        IF k \in DOMAIN fallback /\ DictGet(primary, k) = Null
        THEN fallback[k]
        ELSE primary[k]]

----------------------------------------------------------------------------
(* stock_service.py: the issue collector.                                  *)

\* an exception: its class name, str(exc) and exc.response.status_code
Exc(type, text, status) == [type |-> type, text |-> text, status |-> status]

NoExc      == Exc("none", "", Null)
TimeoutErr == Exc("TimeoutError", "timed out", Null)
HttpErr    == Exc("HTTPError", "Too Many Requests", "429")
\* _finnhub_get: raise ValueError(...) when api_key is empty
NoKeyErr   == Exc("ValueError", "no Finnhub API Key", Null)

_issue_status_code(exc) == exc.status

_issue_message(exc) ==
    LET text == IF exc.text = "" THEN exc.type ELSE exc.text
    IN  IF _issue_status_code(exc) # Null
        THEN "HTTP " \o _issue_status_code(exc) \o " - " \o text
        ELSE exc.type \o ": " \o text

\* _record_fetch_issue(source, exc=exc): the collector's list after the append
_record_fetch_issue(issues, source, exc) ==
    LET entry == [source |-> source, message |-> _issue_message(exc)]
    IN  Append(issues,
               IF _issue_status_code(exc) # Null
               THEN entry @@ [status_code |-> _issue_status_code(exc)]
               ELSE entry)

\* the key _finish_issue_collection deduplicates by
IssueKey(item) ==
    <<item.source, item.message,
      IF "status_code" \in DOMAIN item THEN item.status_code ELSE Null>>

RECURSIVE DedupIssues(_, _, _)
\* the loop of _finish_issue_collection over items[i..], `kept` so far
DedupIssues(items, i, kept) ==
    IF i > Len(items) THEN kept
    ELSE IF \E j \in 1..Len(kept) : IssueKey(kept[j]) = IssueKey(items[i])
         THEN DedupIssues(items, i + 1, kept)
         ELSE DedupIssues(items, i + 1, Append(kept, items[i]))

\* a teardown that hands the collector's list over as it is
finish_without_dedup(items) == items

\* lines 106-128: the collector's list, deduplicated in order
_finish_issue_collection(items) == DedupIssues(items, 1, <<>>)

----------------------------------------------------------------------------
(* stock_service.py: what the source adapters return.  A value is tagged   *)
(* with the source it came from.                                           *)

\* _get_realtime_from_finnhub(bundle): price is None when the quote has none
_get_realtime_from_finnhub(o) ==
    IF o = "ok_price"
    THEN [stock_name |-> "finnhub", trade_date |-> "finnhub", currency |-> "USD", price |-> "finnhub"]
    ELSE [stock_name |-> "finnhub", trade_date |-> Null, currency |-> "USD", price |-> Null]

\* _get_realtime_from_yfinance(symbol): `empty` when the library gave nothing
_get_realtime_from_yfinance(o) ==
    IF o = "ok_price"
    THEN [stock_name |-> "yfinance", trade_date |-> "yfinance", currency |-> "USD", price |-> "yfinance"]
    ELSE [stock_name |-> Null, trade_date |-> Null, currency |-> Null, price |-> Null]

\* _empty_financial_snapshot(): every field None
EmptyFinancialSnapshot == Dict("allnull")

\* _get_financial_from_yfinance(symbol): any exception inside is swallowed and
\* the snapshot built so far (all None) is returned
_get_financial_from_yfinance(o) ==
    IF o = "ok" THEN [kind |-> "dict", id |-> "F1", currency |-> "USD"]
    ELSE EmptyFinancialSnapshot

\* _build_ai_financial_context_from_yfinance(symbol): {"annual": [], "quarterly": []}
\* when anything raised
_build_ai_financial_context_from_yfinance(o) ==
    IF o = "ok" THEN Dict("C1") ELSE Dict("C0")

\* the forecast fields only the scrape fills
ScrapedOnlyKeys == {"forward_pe", "peg", "ev_to_ebitda", "ps", "pb"}

\* the EPS estimate fields of a forecast
EpsKeys == {"eps_forecast", "next_year_eps_forecast", "next_quarter_eps_forecast"}

ForecastKeys == {"currency", "next_earnings_date"} \cup ScrapedOnlyKeys \cup EpsKeys

PredictionKeys == {"currency", "next_earnings_date"} \cup EpsKeys

\* the dict the except branch of the forecast call builds: every field None
EmptyForecast == [k \in ForecastKeys |-> Null]

_get_forecast_from_yahoo(o) ==
    [k \in ForecastKeys |-> IF k = "currency" THEN Null ELSE "yahoo"]

EmptyPrediction == [k \in PredictionKeys |-> Null]

_get_prediction_fields_from_yfinance(o) ==
    IF o = "ok"
    THEN [k \in PredictionKeys |->
            CASE k = "currency" -> "USD"
              [] k = "eps_forecast" -> "yfinance"
              [] OTHER -> Null]
    ELSE EmptyPrediction

\* the model's values that are no number for _is_number: None, NaN, texts
NonNumbers == {Null, "nan", "", "USD", "HKD", "2026-01-30", "2026-02-15"}

\* lines 502-503, on the model's values
_is_number(value) == value \notin NonNumbers

\* float(value): the integer 2 becomes 2.0, a float stays what it is
float(value) == IF value = "2" THEN "2.0" ELSE value

\* lines 585-589, for the two values of every call in the merge
_first_valid_number(a, b) ==
    IF _is_number(a) THEN float(a)
    ELSE IF _is_number(b) THEN float(b)
    ELSE Null

\* Python's `a or b` on None and strings: None and "" are false
Or(a, b) == IF a \notin {Null, ""} THEN a ELSE b

\* a merge that keeps a scraped estimate and takes the library's only where
\* the scrape has none
forecast_update_scrape_first(forecast, yfinance_prediction) ==
    [k \in DOMAIN forecast \cup PredictionKeys |->
        IF k \in {"currency", "next_earnings_date"}
        THEN Or(DictGet(yfinance_prediction, k), DictGet(forecast, k))
        ELSE IF k \in EpsKeys
        THEN _first_valid_number(DictGet(forecast, k), DictGet(yfinance_prediction, k))
        ELSE forecast[k]]

\* lines 2677-2696: forecast.update({...}) with the prediction fields
forecast_update(forecast, yfinance_prediction) ==
    [k \in DOMAIN forecast \cup PredictionKeys |->
        IF k \in {"currency", "next_earnings_date"}
        THEN Or(DictGet(yfinance_prediction, k), DictGet(forecast, k))
        ELSE IF k \in EpsKeys
        THEN _first_valid_number(DictGet(yfinance_prediction, k), DictGet(forecast, k))
        ELSE forecast[k]]

\* _normalize_currency_code on the model's values: a 3-letter code or None
_normalize_currency_code(value) ==
    IF value \in {"USD", "HKD"} THEN value ELSE Null

\* the characters of the model's symbols
Chars(s) ==
    CASE s = ""          -> <<>>
      [] s = " "         -> <<" ">>
      [] s = "a"         -> <<"a">>
      [] s = "A"         -> <<"A">>
      [] s = "B"         -> <<"B">>
      [] s = "C"         -> <<"C">>
      [] s = "A$"        -> <<"A", "$">>
      [] s = "NVDA"      -> <<"N", "V", "D", "A">>
      [] s = "0700.HK"   -> <<"0", "7", "0", "0", ".", "H", "K">>
      [] s = "600000.SS" -> <<"6", "0", "0", "0", "0", "0", ".", "S", "S">>
      [] s = "BF.B"      -> <<"B", "F", ".", "B">>
      [] s = " bf.b"     -> <<" ", "b", "f", ".", "b">>
      [] s = "BRK.A"     -> <<"B", "R", "K", ".", "A">>
      [] s = "7203.T"    -> <<"7", "2", "0", "3", ".", "T">>
      [] s = "VOD.L"     -> <<"V", "O", "D", ".", "L">>
      [] s = "RY.V"      -> <<"R", "Y", ".", "V">>
      [] s = "0005.B"    -> <<"0", "0", "0", "5", ".", "B">>
      [] s = "A.B.C"     -> <<"A", ".", "B", ".", "C">>
      [] s = "X.YZ"      -> <<"X", ".", "Y", "Z">>
      [] s = "X."        -> <<"X", ".">>

Letters ==
    {"A", "B", "C", "D", "E", "F", "G", "H", "I", "J", "K", "L", "M",
     "N", "O", "P", "Q", "R", "S", "T", "U", "V", "W", "X", "Y", "Z"}

\* str.upper() on one character of the model's symbols
UpperChar(c) ==
    CASE c = "a" -> "A"
      [] c = "b" -> "B"
      [] c = "f" -> "F"
      [] OTHER   -> c

\* str.strip() on a list of characters
RECURSIVE StripChars(_)
StripChars(cs) ==
    IF cs = <<>> THEN <<>>
    ELSE IF Head(cs) = " " THEN StripChars(Tail(cs))
    ELSE IF cs[Len(cs)] = " " THEN StripChars(SubSeq(cs, 1, Len(cs) - 1))
    ELSE cs

\* str.isalpha(): at least one character and letters only
isalpha(cs) == cs # <<>> /\ \A i \in 1..Len(cs) : cs[i] \in Letters

\* lines 174-213: Yahoo ticker suffix to currency
SYMBOL_SUFFIX_CURRENCY_MAP ==
    { <<<<"H", "K">>, "HKD">>, <<<<"S", "S">>, "CNY">>, <<<<"S", "Z">>, "CNY">>,
      <<<<"S", "H">>, "CNY">>, <<<<"B", "J">>, "CNY">>, <<<<"T">>, "JPY">>,
      <<<<"K", "S">>, "KRW">>, <<<<"K", "Q">>, "KRW">>, <<<<"T", "W">>, "TWD">>,
      <<<<"T", "W", "O">>, "TWD">>, <<<<"L">>, "GBP">>, <<<<"P", "A">>, "EUR">>,
      <<<<"A", "S">>, "EUR">>, <<<<"B", "R">>, "EUR">>, <<<<"M", "I">>, "EUR">>,
      <<<<"D", "E">>, "EUR">>, <<<<"M", "C">>, "EUR">>, <<<<"H", "E">>, "EUR">>,
      <<<<"C", "O">>, "DKK">>, <<<<"S", "T">>, "SEK">>, <<<<"O", "L">>, "NOK">>,
      <<<<"S", "W">>, "CHF">>, <<<<"A", "X">>, "AUD">>, <<<<"T", "O">>, "CAD">>,
      <<<<"V">>, "CAD">>, <<<<"S", "I">>, "SGD">>, <<<<"N", "S">>, "INR">>,
      <<<<"B", "O">>, "INR">>, <<<<"B", "K">>, "THB">>, <<<<"J", "K">>, "IDR">>,
      <<<<"K", "L">>, "MYR">>, <<<<"V", "N">>, "VND">>, <<<<"S", "A">>, "BRL">>,
      <<<<"M", "X">>, "MXN">>, <<<<"J", "O">>, "ZAR">>, <<<<"T", "A">>, "ILS">>,
      <<<<"M", "E">>, "RUB">>, <<<<"B", "A">>, "ARS">> }

\* SYMBOL_SUFFIX_CURRENCY_MAP.get(suffix)
SuffixCurrency(suffix) ==
    IF \E e \in SYMBOL_SUFFIX_CURRENCY_MAP : e[1] = suffix
    THEN (CHOOSE e \in SYMBOL_SUFFIX_CURRENCY_MAP : e[1] = suffix)[2]
    ELSE Null

\* str(symbol or "").strip().upper(), as characters
RawSymbol(symbol) ==
    LET cs == StripChars(Chars(symbol))
    IN  [i \in 1..Len(cs) |-> UpperChar(cs[i])]

\* raw.rsplit(".", 1) for a raw with a dot in it
rsplit(raw) ==
    LET dot == CHOOSE i \in 1..Len(raw) :
                   raw[i] = "." /\ \A j \in (i + 1)..Len(raw) : raw[j] # "."
    IN  [base |-> SubSeq(raw, 1, dot - 1), suffix |-> SubSeq(raw, dot + 1, Len(raw))]

\* an inference that takes a one-character suffix for a share class before
\* it looks the suffix up
infer_share_class_first(symbol) ==
    LET raw == RawSymbol(symbol)
    IN  IF raw = <<>> THEN Null
        ELSE IF \E i \in 1..Len(raw) : raw[i] = "."
             THEN IF Len(rsplit(raw).suffix) = 1 THEN "USD"
                  ELSE SuffixCurrency(rsplit(raw).suffix)
        ELSE "USD"

\* lines 223-236
_infer_currency_from_symbol(symbol) ==
    LET raw == RawSymbol(symbol)
    IN  IF raw = <<>> THEN Null
        ELSE IF \E i \in 1..Len(raw) : raw[i] = "."
             THEN LET base   == rsplit(raw).base
                      suffix == rsplit(raw).suffix
                      mapped == SuffixCurrency(suffix)
                  IN  IF mapped # Null THEN mapped
                      ELSE IF Len(suffix) = 1 /\ isalpha(base) THEN "USD"
                      ELSE Null
        ELSE "USD"

\* _attach_currency_snapshot: the three resolved codes
_attach_currency_snapshot(symbol, realtime, financial, forecast, profile_currency) ==
    LET inferred == _infer_currency_from_symbol(symbol)
        quote0   == Or(_normalize_currency_code(DictGet(realtime, "currency")),
                       _normalize_currency_code(profile_currency))
        fin0     == _normalize_currency_code(financial.currency)
        fc0      == _normalize_currency_code(DictGet(forecast, "currency"))
        quote    == IF quote0 = Null THEN Or(fin0, Or(fc0, inferred)) ELSE quote0
        fin      == IF fin0 = Null THEN Or(quote, Or(fc0, inferred)) ELSE fin0
    IN  [quote |-> quote, financial |-> fin,
         forecast |-> Or(fin, Or(quote, Or(fc0, inferred)))]

\* Numbers as cells: a number, or none (NaN in a frame, None as a result).
\* Percentages are in hundredths of a percent, EPS figures in cents.

Num(n) == [num |-> TRUE, v |-> n]

\* NaN in a frame, None as a result
NoNum == [num |-> FALSE, v |-> 0]

\* lines 502-503, on cells
_is_number_cell(value) == value.num

\* a / b rounded to the nearest integer, for b > 0 (the model's figures leave
\* no tie for round() to break)
RoundDiv(a, b) == (2 * a + b) \div (2 * b)

\* lines 518-521, in hundredths of a percent
_pct_change(new, old) ==
    IF ~_is_number_cell(new) \/ ~_is_number_cell(old) \/ old.v = 0 THEN NoNum
    ELSE IF old.v > 0 THEN Num(RoundDiv((new.v - old.v) * 10000, old.v))
    ELSE Num(RoundDiv((old.v - new.v) * 10000, 0 - old.v))

\* The expectation and guidance engine.  The texts stand for the Chinese
\* sentences of the source, one name per sentence.

BeatInsufficientText  == "beat_miss: insufficient, no beat/miss or EPS surprise data"
GuidanceOfflineText   == "guidance: module offline"
TrendInsufficientText == "eps_trend: insufficient, no EPS trend data"
OverallEmptyText      == "insufficient: key data missing, review with the latest report"
OverallInsufficientText == "insufficient: evidence incomplete, no directional view"
OverallPositiveText   == "overall: signals positive, expectations revised up"
OverallCautiousText   == "overall: signals cautious, pressure of downward revision"
OverallMixedText      == "overall: signals mixed, follow the next report"

\* lines 914-978: every classification "insufficient"
_empty_expectation_guidance_snapshot ==
    [beat_miss |-> [latest_quarter |-> 0, latest_surprise_pct |-> NoNum,
                    latest_result |-> "insufficient",
                    beat_count_4q |-> 0, miss_count_4q |-> 0, inline_count_4q |-> 0,
                    beat_streak_4q |-> 0, conclusion |-> BeatInsufficientText],
     guidance |-> [signal |-> "insufficient", revision_signal |-> "insufficient",
                   news_guidance_signal |-> "insufficient",
                   conclusion |-> GuidanceOfflineText],
     eps_trend |-> [period |-> Null, change_vs_30d_pct |-> NoNum, change_vs_90d_pct |-> NoNum,
                    signal |-> "insufficient", conclusion |-> TrendInsufficientText],
     conclusion |-> [beat_miss |-> BeatInsufficientText, guidance |-> GuidanceOfflineText,
                     eps_trend |-> TrendInsufficientText, overall |-> OverallEmptyText]]

\* a classification that leaves a missing surprise unclassified
classify_surprise_or_null(surprise_pct) ==
    IF ~_is_number_cell(surprise_pct) THEN Null
    ELSE IF surprise_pct.v > 50 THEN "beat"
    ELSE IF surprise_pct.v < 0 - 50 THEN "miss"
    ELSE "inline"

\* lines 981-988, surprise in hundredths of a percent
_classify_surprise(surprise_pct) ==
    IF ~_is_number_cell(surprise_pct) THEN "insufficient"
    ELSE IF surprise_pct.v > 50 THEN "beat"
    ELSE IF surprise_pct.v < 0 - 50 THEN "miss"
    ELSE "inline"

\* records.sort(key=quarter), line 1020
RECURSIVE SortByQuarter(_, _)
SortByQuarter(records, sorted) ==
    IF records = <<>> THEN sorted
    ELSE LET r == Head(records)
             n == Cardinality({ i \in 1..Len(sorted) : sorted[i].quarter <= r.quarter })
         IN  SortByQuarter(Tail(records),
                           SubSeq(sorted, 1, n) \o <<r>> \o SubSeq(sorted, n + 1, Len(sorted)))

\* the loop of lines 1038-1043: beats counted back from the latest record
RECURSIVE BeatStreak(_)
BeatStreak(recent) ==
    IF recent = <<>> THEN 0
    ELSE IF _classify_surprise(recent[Len(recent)].surprise_pct) = "beat"
         THEN 1 + BeatStreak(SubSeq(recent, 1, Len(recent) - 1))
    ELSE 0

\* lines 991-1072.  history_df is the list of its rows as lines 1007-1014
\* record them: `quarter` (0 when _safe_iso_date gives nothing) and
\* `surprise_pct`.  The average and the list of surprises are left out.
_build_beat_miss_snapshot(history_df) ==
    LET base    == _empty_expectation_guidance_snapshot.beat_miss
        dated   == SelectSeq(history_df, LAMBDA item : item.quarter # 0)
        records == SortByQuarter(dated, <<>>)
        recent  == SubSeq(records, IF Len(records) > 4 THEN Len(records) - 3 ELSE 1,
                          Len(records))
        latest  == recent[Len(recent)]
        Count(cls) == Cardinality({ i \in 1..Len(recent) :
                          /\ _is_number_cell(recent[i].surprise_pct)
                          /\ _classify_surprise(recent[i].surprise_pct) = cls })
        beat_count  == Count("beat")
        miss_count  == Count("miss")
        beat_streak == BeatStreak(recent)
        any_value   == \E i \in 1..Len(recent) : _is_number_cell(recent[i].surprise_pct)
    IN  IF records = <<>> THEN base
        ELSE [latest_quarter |-> latest.quarter,
              latest_surprise_pct |-> latest.surprise_pct,
              latest_result |-> _classify_surprise(latest.surprise_pct),
              beat_count_4q |-> beat_count,
              miss_count_4q |-> miss_count,
              inline_count_4q |-> Count("inline"),
              beat_streak_4q |-> beat_streak,
              conclusion |->
                  IF beat_streak >= 3 THEN "beat_miss: beat in a row"
                  ELSE IF beat_count >= 3 /\ miss_count = 0 THEN "beat_miss: mostly beat"
                  ELSE IF miss_count >= 2 /\ beat_count <= 1 THEN "beat_miss: misses"
                  ELSE IF any_value THEN "beat_miss: alternating"
                  ELSE base.conclusion]

\* lines 1075-1124.  eps_trend_df is the row _find_period_row picks, <<>>
\* when it finds none: its label and its current, d30 and d90 figures
_build_eps_trend_snapshot(eps_trend_df) ==
    LET base == _empty_expectation_guidance_snapshot.eps_trend
        row  == eps_trend_df
        change_30 == IF _is_number_cell(row.current) /\ _is_number_cell(row.d30) /\ row.d30.v # 0
                     THEN _pct_change(row.current, row.d30) ELSE NoNum
        change_90 == IF _is_number_cell(row.current) /\ _is_number_cell(row.d90) /\ row.d90.v # 0
                     THEN _pct_change(row.current, row.d90) ELSE NoNum
        driver_change == IF _is_number_cell(change_90) THEN change_90 ELSE change_30
        graded ==
            IF ~_is_number_cell(driver_change) THEN <<"insufficient", base.conclusion>>
            ELSE IF driver_change.v >= 800 THEN <<"up", "eps_trend: clearly revised up">>
            ELSE IF driver_change.v >= 300 THEN <<"up", "eps_trend: mildly revised up">>
            ELSE IF driver_change.v <= 0 - 800 THEN <<"down", "eps_trend: clearly revised down">>
            ELSE IF driver_change.v <= 0 - 300 THEN <<"down", "eps_trend: mildly revised down">>
            ELSE <<"flat", "eps_trend: stable">>
    IN  IF eps_trend_df = <<>> THEN base
        ELSE [period |-> row.period,
              change_vs_30d_pct |-> change_30,
              change_vs_90d_pct |-> change_90,
              signal |-> graded[1],
              conclusion |-> graded[2]]

\* an overall conclusion that needs only a score of 1 to take a side
overall_conclusion_low_threshold(beat_miss, guidance, eps_trend) ==
    LET beat_term   == CASE beat_miss.latest_result = "beat" -> 1
                         [] beat_miss.latest_result = "miss" -> 0 - 1
                         [] OTHER -> 0
        streak_term == IF beat_miss.beat_streak_4q >= 3 THEN 1
                       ELSE IF beat_miss.miss_count_4q >= 2 THEN 0 - 1
                       ELSE 0
        trend_term  == CASE eps_trend.signal = "up" -> 1
                         [] eps_trend.signal = "down" -> 0 - 1
                         [] OTHER -> 0
        score       == beat_term + streak_term + trend_term
        has_signal  == beat_term # 0 \/ streak_term # 0 \/ trend_term # 0
    IN  IF ~has_signal THEN OverallInsufficientText
        ELSE IF score >= 1 THEN OverallPositiveText
        ELSE IF score <= 0 - 1 THEN OverallCautiousText
        ELSE OverallMixedText

\* lines 1127-1162
_build_expectation_overall_conclusion(beat_miss, guidance, eps_trend) ==
    LET beat_term   == CASE beat_miss.latest_result = "beat" -> 1
                         [] beat_miss.latest_result = "miss" -> 0 - 1
                         [] OTHER -> 0
        streak_term == IF beat_miss.beat_streak_4q >= 3 THEN 1
                       ELSE IF beat_miss.miss_count_4q >= 2 THEN 0 - 1
                       ELSE 0
        trend_term  == CASE eps_trend.signal = "up" -> 1
                         [] eps_trend.signal = "down" -> 0 - 1
                         [] OTHER -> 0
        score       == beat_term + streak_term + trend_term
        has_signal  == beat_term # 0 \/ streak_term # 0 \/ trend_term # 0
    IN  IF ~has_signal THEN OverallInsufficientText
        ELSE IF score >= 2 THEN OverallPositiveText
        ELSE IF score <= 0 - 2 THEN OverallCautiousText
        ELSE OverallMixedText

\* lines 1165-1197.  ticker holds what get_earnings_history and get_eps_trend
\* deliver, empty when the library is missing or a getter fails
_build_expectation_guidance_snapshot(ticker) ==
    LET snapshot  == _empty_expectation_guidance_snapshot
        beat_miss == _build_beat_miss_snapshot(ticker.earnings_history)
        guidance  == snapshot.guidance
        eps_trend == _build_eps_trend_snapshot(ticker.eps_trend)
        overall   == _build_expectation_overall_conclusion(beat_miss, guidance, eps_trend)
    IN  [beat_miss |-> beat_miss,
         guidance |-> guidance,
         eps_trend |-> eps_trend,
         conclusion |-> [beat_miss |-> beat_miss.conclusion,
                         guidance |-> guidance.conclusion,
                         eps_trend |-> eps_trend.conclusion,
                         overall |-> overall]]

\* what the library holds for the expectation step of a fetch: four beats
\* and a rising trend, or nothing
ExpectationTicker(o) ==
    IF o = "ok"
    THEN [earnings_history |-> [q \in 1..4 |-> [quarter |-> 90 * q, surprise_pct |-> Num(400)]],
          eps_trend |-> [period |-> "+1y", current |-> Num(110), d30 |-> Num(105),
                         d90 |-> Num(100)]]
    ELSE [earnings_history |-> <<>>, eps_trend |-> <<>>]

\* _financial_cache_ttl_hours(): the environment variable, 12.0 unless it
\* parses to a positive number
_financial_cache_ttl_hours(raw) ==
    CASE raw = "6"  -> 6
      [] raw = "12" -> 12
      [] OTHER      -> 12

----------------------------------------------------------------------------
(* stock_service.py: get_stock_bundle, one step per source call.  A unit   *)
(* record holds the locals of _get_stock_bundle_inner, the collector's     *)
(* list (`issues`), the source calls made so far (`calls`) and where the   *)
(* unit is (`pc`).  Each step takes `o`, what the source it calls does.    *)

\* get_stock_bundle(symbol, finnhub_api_key, force_refresh_financial) entered:
\* _start_issue_collection(), then lines 2602-2606 of _get_stock_bundle_inner
StartUnit(symbol, finnhub_api_key, force_refresh_financial, ttl_raw) ==
    [pc |-> "primary",
     symbol |-> Upper(symbol),
     finnhub_api_key |-> Strip(finnhub_api_key),
     force_refresh_financial |-> force_refresh_financial,
     ttl_raw |-> ttl_raw,
     realtime |-> <<>>,
     profile_currency |-> Null,
     cached_payload |-> NoPayload,
     financial |-> NoneVal,
     ai_financial_context |-> NoneVal,
     forecast |-> <<>>,
     yfinance_prediction |-> <<>>,
     currency |-> <<>>,
     news |-> <<>>,
     expectation_guidance |-> <<>>,
     issues |-> <<>>,
     calls |-> {},
     nfail |-> 0,
     raised |-> NoExc,
     stock |-> <<>>]

\* lines 2607-2614: the primary API, only with a credential
StepPrimary(u, o) ==
    IF u.finnhub_api_key = "" THEN [u EXCEPT !.pc = "fallback"]
    ELSE LET v == [u EXCEPT !.pc = "fallback", !.calls = @ \cup {"finnhub"}]
         IN  CASE o = "raise_http" ->
                    [v EXCEPT !.issues = _record_fetch_issue(@, "finnhub.bundle", HttpErr)]
               [] o = "raise_timeout" ->
                    [v EXCEPT !.issues = _record_fetch_issue(@, "finnhub.bundle", TimeoutErr)]
               [] o = "quote_error" ->
                    \* _safe_finnhub_get("/quote") records the failure and returns {}
                    [v EXCEPT !.issues = _record_fetch_issue(@, "finnhub/quote", HttpErr),
                              !.realtime = _get_realtime_from_finnhub(o),
                              !.profile_currency = "USD"]
               [] OTHER ->
                    [v EXCEPT !.realtime = _get_realtime_from_finnhub(o),
                              !.profile_currency = "USD"]

\* a fallback that runs only without a credential, whatever the primary left
StepFallbackOnlyWithoutKey(u, o) ==
    IF u.finnhub_api_key = ""
    THEN LET v == [u EXCEPT !.pc = "cache_read", !.calls = @ \cup {"yfinance.realtime"}]
         IN  IF o = "raise"
             THEN [v EXCEPT !.issues = _record_fetch_issue(@, "yfinance.realtime", TimeoutErr)]
             ELSE [v EXCEPT !.realtime =
                        _merge_realtime_snapshot(u.realtime, _get_realtime_from_yfinance(o))]
    ELSE [u EXCEPT !.pc = "cache_read"]

\* lines 2616-2621: the statistics-library fallback
StepFallback(u, o) ==
    IF u.finnhub_api_key = "" \/ DictGet(u.realtime, "price") = Null
    THEN LET v == [u EXCEPT !.pc = "cache_read", !.calls = @ \cup {"yfinance.realtime"}]
         IN  IF o = "raise"
             THEN [v EXCEPT !.issues = _record_fetch_issue(@, "yfinance.realtime", TimeoutErr)]
             ELSE [v EXCEPT !.realtime =
                        _merge_realtime_snapshot(u.realtime, _get_realtime_from_yfinance(o))]
    ELSE [u EXCEPT !.pc = "cache_read"]

\* lines 2623-2629: the cache read, unless a refresh is forced
StepCacheRead(u, o, c, t) ==
    IF u.force_refresh_financial THEN [u EXCEPT !.pc = "statements"]
    ELSE LET v == [u EXCEPT !.pc = "statements", !.calls = @ \cup {"cache.read"}]
         IN  IF o = "raise"
             THEN [v EXCEPT !.issues = _record_fetch_issue(@, "cache.financial.read", TimeoutErr)]
             ELSE [v EXCEPT !.cached_payload =
                        get_cached_financial_bundle(c, u.symbol,
                                                    _financial_cache_ttl_hours(u.ttl_raw), t)]

\* a statements step that computes the snapshot whatever the cache returned
StepStatementsIgnoresCache(u, o) ==
    [u EXCEPT !.pc = "context",
              !.calls = @ \cup {"yfinance.financial"},
              !.financial = _get_financial_from_yfinance(o)]

\* lines 2631-2639: the cached snapshot, or the statement computation
StepStatements(u, o) ==
    IF u.cached_payload.kind = "dict"
    THEN [u EXCEPT !.pc = "forecast",
                   !.financial = IF IsDict(u.cached_payload.financial)
                                 THEN u.cached_payload.financial ELSE EmptyDict,
                   !.ai_financial_context =
                        IF IsDict(u.cached_payload.ai_financial_context)
                        THEN u.cached_payload.ai_financial_context ELSE EmptyDict]
    ELSE [u EXCEPT !.pc = "context",
                   !.calls = @ \cup {"yfinance.financial"},
                   !.financial = _get_financial_from_yfinance(o)]

\* lines 2640-2642
StepContext(u, o) ==
    [u EXCEPT !.pc = "cache_write",
              !.calls = @ \cup {"yfinance.context"},
              !.ai_financial_context = _build_ai_financial_context_from_yfinance(o)]

\* a pipeline that goes on to the forecast without storing what it computed
StepCacheWriteSkipped(u, o, c, t) ==
    [u |-> [u EXCEPT !.pc = "forecast"], cache |-> c]

\* lines 2643-2646: the cache write; [u, cache] after it
StepCacheWrite(u, o, c, t) ==
    LET v == [u EXCEPT !.pc = "forecast", !.calls = @ \cup {"cache.write"}]
    IN  IF o = "raise"
        THEN [u |-> [v EXCEPT !.issues =
                        _record_fetch_issue(@, "cache.financial.write", TimeoutErr)],
              cache |-> c]
        ELSE [u |-> v,
              cache |-> set_cached_financial_bundle(c, u.symbol, u.financial,
                                                    u.ai_financial_context, t)]

\* a forecast call with no try block around it: its exception leaves the unit
StepForecastNoTry(u, o) ==
    LET v == [u EXCEPT !.pc = "prediction", !.calls = @ \cup {"yahoo.forecast"}]
    IN  IF o = "raise"
        THEN [v EXCEPT !.pc = "raised", !.raised = HttpErr]
        ELSE [v EXCEPT !.forecast = _get_forecast_from_yahoo(o)]

\* lines 2648-2663: the scraped forecast
StepForecast(u, o) ==
    LET v == [u EXCEPT !.pc = "prediction", !.calls = @ \cup {"yahoo.forecast"}]
    IN  IF o = "raise"
        THEN [v EXCEPT !.issues = _record_fetch_issue(@, "yahoo.forecast", HttpErr),
                       !.forecast = EmptyForecast]
        ELSE [v EXCEPT !.forecast = _get_forecast_from_yahoo(o)]

\* lines 2665-2675: the library's prediction fields
StepPrediction(u, o) ==
    LET v == [u EXCEPT !.pc = "merge", !.calls = @ \cup {"yfinance.prediction"}]
    IN  IF o = "raise"
        THEN [v EXCEPT !.issues = _record_fetch_issue(@, "yfinance.prediction", TimeoutErr),
                       !.yfinance_prediction = EmptyPrediction]
        ELSE [v EXCEPT !.yfinance_prediction = _get_prediction_fields_from_yfinance(o)]

\* the exceptions a statement outside every try block raises
UnhandledExcs == { Exc("RuntimeError", "boom", Null), Exc("KeyError", "", Null) }

UnhandledOf(o) ==
    IF o = "unhandled_runtime" THEN Exc("RuntimeError", "boom", Null)
    ELSE Exc("KeyError", "", Null)

\* lines 2677-2703: forecast.update and _attach_currency_snapshot, which no try
\* block encloses: an exception here leaves get_stock_bundle through its
\* finally clause
StepMerge(u, o) ==
    IF o \in {"unhandled_runtime", "unhandled_key"}
    THEN [u EXCEPT !.pc = "raised", !.raised = UnhandledOf(o)]
    ELSE LET forecast == forecast_update(u.forecast, u.yfinance_prediction)
             currency == _attach_currency_snapshot(u.symbol, u.realtime, u.financial,
                                                   forecast, u.profile_currency)
         IN  [u EXCEPT !.pc = "news_finnhub",
                       !.currency = currency,
                       !.realtime = [k \in DOMAIN u.realtime \cup {"currency"} |->
                                        IF k = "currency" THEN currency.quote
                                        ELSE u.realtime[k]],
                       !.financial = [@ EXCEPT !.currency = currency.financial],
                       !.forecast = [forecast EXCEPT !["currency"] = currency.forecast]]

\* _fetch_news_finnhub: _finnhub_get raises without a key, and every exception
\* is recorded and turned into []
StepNewsFinnhub(u, o) ==
    LET v == [u EXCEPT !.pc = "news_rss", !.calls = @ \cup {"finnhub.company_news"}]
    IN  IF u.finnhub_api_key = ""
        THEN [v EXCEPT !.issues = _record_fetch_issue(@, "finnhub.company_news", NoKeyErr)]
        ELSE CASE o = "raise" ->
                    [v EXCEPT !.issues = _record_fetch_issue(@, "finnhub.company_news", HttpErr)]
               [] o = "empty" -> v
               [] OTHER -> [v EXCEPT !.news = <<"finnhub">>]

\* _get_recent_news: the RSS feed when the primary API gave no news
StepNewsRss(u, o) ==
    IF u.news # <<>> THEN [u EXCEPT !.pc = "expectation"]
    ELSE LET v == [u EXCEPT !.pc = "expectation", !.calls = @ \cup {"yahoo.rss"}]
         IN  CASE o = "raise" ->
                    [v EXCEPT !.issues = _record_fetch_issue(@, "yahoo.rss", TimeoutErr)]
               [] o = "empty" -> v
               [] OTHER -> [v EXCEPT !.news = <<"rss">>]

\* lines 2710-2717
StepExpectation(u, o) ==
    LET v == [u EXCEPT !.pc = "finish", !.calls = @ \cup {"expectation_guidance"}]
    IN  IF o = "raise"
        THEN [v EXCEPT !.issues = _record_fetch_issue(@, "expectation_guidance", TimeoutErr),
                       !.expectation_guidance = _empty_expectation_guidance_snapshot]
        ELSE [v EXCEPT !.expectation_guidance =
                            _build_expectation_guidance_snapshot(ExpectationTicker(o))]

\* a finish that attaches `warnings` even when the issue list is empty
StepFinishAlwaysWarnings(u) ==
    LET stock  == [symbol |-> u.symbol,
                   currency |-> u.currency,
                   realtime |-> u.realtime,
                   financial |-> u.financial,
                   forecast |-> u.forecast,
                   ai_financial_context |-> u.ai_financial_context,
                   news |-> u.news,
                   expectation_guidance |-> u.expectation_guidance]
        issues == _finish_issue_collection(u.issues)
    IN  [u EXCEPT !.pc = "done", !.stock = stock @@ [warnings |-> issues]]

\* lines 2719-2729 and get_stock_bundle lines 2589-2594: the Bundle, with
\* `warnings` when the deduplicated issue list is not empty
StepFinish(u) ==
    LET stock  == [symbol |-> u.symbol,
                   currency |-> u.currency,
                   realtime |-> u.realtime,
                   financial |-> u.financial,
                   forecast |-> u.forecast,
                   ai_financial_context |-> u.ai_financial_context,
                   news |-> u.news,
                   expectation_guidance |-> u.expectation_guidance]
        issues == _finish_issue_collection(u.issues)
    IN  [u EXCEPT !.pc = "done",
                  !.stock = IF issues # <<>> THEN stock @@ [warnings |-> issues] ELSE stock]

\* what the source called at u.pc can do: return (with or without data) or raise
Outcomes(u) ==
    CASE u.pc = "primary" ->
            IF u.finnhub_api_key = "" THEN {"skip"}
            ELSE {"ok_price", "ok_noprice", "quote_error", "raise_http", "raise_timeout"}
      [] u.pc = "fallback" ->
            IF u.finnhub_api_key = "" \/ DictGet(u.realtime, "price") = Null
            THEN {"ok_price", "ok_noprice", "raise"} ELSE {"skip"}
      [] u.pc = "cache_read" ->
            IF u.force_refresh_financial THEN {"skip"} ELSE {"ok", "raise"}
      [] u.pc = "statements" ->
            IF u.cached_payload.kind = "dict" THEN {"skip"} ELSE {"ok", "fail"}
      [] u.pc = "context" -> {"ok", "fail"}
      [] u.pc = "cache_write" -> {"ok", "raise"}
      [] u.pc = "forecast" -> {"ok", "raise"}
      [] u.pc = "prediction" -> {"ok", "empty", "raise"}
      [] u.pc = "merge" -> {"ok", "unhandled_runtime", "unhandled_key"}
      [] u.pc = "news_finnhub" ->
            IF u.finnhub_api_key = "" THEN {"skip"} ELSE {"ok", "empty", "raise"}
      [] u.pc = "news_rss" ->
            IF u.news # <<>> THEN {"skip"} ELSE {"ok", "empty", "raise"}
      [] u.pc = "expectation" -> {"ok", "insufficient", "raise"}
      [] u.pc = "finish" -> {"skip"}
      [] OTHER -> {}

\* the outcomes in which the source failed
FailureOutcomes ==
    {"raise", "raise_http", "raise_timeout", "quote_error", "fail",
     "unhandled_runtime", "unhandled_key"}

\* one step of the unit at u.pc: [u, cache] after it
Step(u, o, c, t) ==
    CASE u.pc = "primary"      -> [u |-> StepPrimary(u, o), cache |-> c]
      [] u.pc = "fallback"     -> [u |-> StepFallback(u, o), cache |-> c]
      [] u.pc = "cache_read"   -> [u |-> StepCacheRead(u, o, c, t), cache |-> c]
      [] u.pc = "statements"   -> [u |-> StepStatements(u, o), cache |-> c]
      [] u.pc = "context"      -> [u |-> StepContext(u, o), cache |-> c]
      [] u.pc = "cache_write"  -> StepCacheWrite(u, o, c, t)
      [] u.pc = "forecast"     -> [u |-> StepForecast(u, o), cache |-> c]
      [] u.pc = "prediction"   -> [u |-> StepPrediction(u, o), cache |-> c]
      [] u.pc = "merge"        -> [u |-> StepMerge(u, o), cache |-> c]
      [] u.pc = "news_finnhub" -> [u |-> StepNewsFinnhub(u, o), cache |-> c]
      [] u.pc = "news_rss"     -> [u |-> StepNewsRss(u, o), cache |-> c]
      [] u.pc = "expectation"  -> [u |-> StepExpectation(u, o), cache |-> c]
      [] OTHER                 -> [u |-> StepFinish(u), cache |-> c]

----------------------------------------------------------------------------
(* Bounds of the model.                                                    *)

HoursPerTick == 12      \* hours the clock advances in one step
MaxTicks     == 2       \* steps of the clock in one behaviour
MaxFailures  == 1       \* source calls that fail within one fetch

\* persistence.py get_cached_financial_bundle(symbol, ttl_hours=12, ...)
DefaultTtlHours == 12

----------------------------------------------------------------------------
(* The parts of the state a specification does not use stay at these.      *)

IdleApi   == [op |-> "none", symbol |-> "", ttl |-> 0, at |-> 0, row |-> NoRow, result |-> NoPayload]
IdleLastw == [k \in CacheKeys |->
                [written |-> FALSE, financial |-> EmptyDict, ai_financial_context |-> EmptyDict, t |-> 0]]
IdleMrg   == [op |-> "none", primary |-> <<>>, fallback |-> <<>>, merged |-> <<>>]
IdleFetch == [pc |-> "idle"]
IdleReq   == [op |-> "none"]
IdleThr   == <<>>
\* no thread holds _DB_LOCK (threads are numbered from 1)
IdleLock  == 0
IdleCalc  == [op |-> "none"]

EmptyCache == [k \in CacheKeys |-> NoRow]

\* rows an earlier run of the program, or another writer of the file, left behind
StaleRow(kind, ok) ==
    [present |-> TRUE,
     payload_json |-> [kind |-> kind,
                       financial |-> Dict("F2"),
                       ai_financial_context |-> Dict("C2")],
     updated_at |-> [ok |-> ok, t |-> 0]]

InitRows == { NoRow,
              StaleRow("object", TRUE),
              StaleRow("object", FALSE),
              StaleRow("array", TRUE),
              StaleRow("garbage", TRUE) }

Tick ==
    /\ now + HoursPerTick <= HoursPerTick * MaxTicks
    /\ now' = now + HoursPerTick

----------------------------------------------------------------------------
(* SpecCache: the cache API called directly, as tests/test_persistence.py  *)
(* does: any sequence of writes and reads while the clock advances.        *)

ApiSymbols == {"", "a", "A", "B"}
ApiTtls    == {0 - 1, 0, 6, DefaultTtlHours}
ApiFinancials == { Dict("F1"), Dict("F2") }
ApiContexts   == { Dict("C1"), Dict("C2") }

InitCache ==
    /\ cache \in { [EmptyCache EXCEPT !["A"] = r] : r \in InitRows }
    /\ now = 0
    /\ api = IdleApi
    /\ lastw = IdleLastw
    /\ mrg = IdleMrg
    /\ fetch = IdleFetch
    /\ req = IdleReq
    /\ units = <<>>
    /\ results = <<>>
    /\ out = <<>>
    /\ thr = IdleThr
    /\ lock = IdleLock
    /\ calc = IdleCalc

ApiWrite(symbol, financial, ctx) ==
    LET target == Upper(Strip(symbol))
    IN  /\ cache' = set_cached_financial_bundle(cache, symbol, financial, ctx, now)
        /\ api' = [op |-> "write", symbol |-> symbol, ttl |-> 0, at |-> now,
                   row |-> IF target = "" THEN NoRow ELSE cache'[target],
                   result |-> NoPayload]
        /\ lastw' = IF target = "" THEN lastw
                    ELSE [lastw EXCEPT ![target] =
                            [written |-> TRUE, financial |-> financial,
                             ai_financial_context |-> ctx, t |-> now]]
        /\ UNCHANGED <<now, mrg, fetch, req, units, results, out, thr, lock, calc>>

ApiRead(symbol, ttl_hours) ==
    LET target == Upper(Strip(symbol))
    IN  /\ api' = [op |-> "read", symbol |-> symbol, ttl |-> ttl_hours, at |-> now,
                   row |-> IF target = "" THEN NoRow ELSE cache[target],
                   result |-> get_cached_financial_bundle(cache, symbol, ttl_hours, now)]
        /\ UNCHANGED <<cache, now, lastw, mrg, fetch, req, units, results, out, thr, lock, calc>>

ApiTick ==
    /\ Tick
    /\ UNCHANGED <<cache, api, lastw, mrg, fetch, req, units, results, out, thr, lock, calc>>

NextCache ==
    \/ \E s \in ApiSymbols, f \in ApiFinancials, c \in ApiContexts : ApiWrite(s, f, c)
    \/ \E s \in ApiSymbols, h \in ApiTtls : ApiRead(s, h)
    \/ ApiTick

SpecCache == InitCache /\ [][NextCache]_vars

\* the row a read looked at is well formed: timestamp parses, payload is an object
WellFormed(row) ==
    /\ row.present
    /\ row.updated_at.ok
    /\ row.payload_json.kind = "object"

\* C8: read(symbol, ttl_hours) returns null for every ttl_hours <= 0, whether or
\* not a fresh, well-formed entry for the symbol is stored.
C8_NonPositiveTtlReadsNull ==
    (api.op = "read" /\ api.ttl <= 0) => api.result = NoPayload

\* a read with ttl_hours = 0 of an entry written in the same hour returned null
C8_Witness ==
    /\ api.op = "read"
    /\ api.ttl = 0
    /\ WellFormed(api.row)
    /\ api.at = api.row.updated_at.t
    /\ api.result = NoPayload

\* C9: for a positive ttl_hours and a stored well-formed entry, read returns the
\* decoded payload when now - updated_at <= ttl_hours and null when
\* now - updated_at > ttl_hours.
C9_ReadHonoursTtl ==
    (api.op = "read" /\ api.ttl > 0 /\ WellFormed(api.row)) =>
        IF api.at - api.row.updated_at.t <= api.ttl
        THEN api.result = [kind |-> "dict",
                           financial |-> api.row.payload_json.financial,
                           ai_financial_context |-> api.row.payload_json.ai_financial_context]
        ELSE api.result = NoPayload

\* a read of a well-formed entry older than the caller's TTL returned null
C9_Witness ==
    /\ api.op = "read"
    /\ api.ttl > 0
    /\ WellFormed(api.row)
    /\ api.at - api.row.updated_at.t > api.ttl
    /\ api.result = NoPayload

\* C10: after write(symbol, F, C) with no later write for that symbol, a
\* read(symbol, ttl_hours = 12) made within the TTL returns exactly
\* {financial: F, ai_financial_context: C}.
C10_WriteReadRoundTrip ==
    LET key == Upper(Strip(api.symbol))
    IN  (/\ api.op = "read"
         /\ api.ttl = DefaultTtlHours
         /\ key # ""
         /\ lastw[key].written
         /\ api.at - lastw[key].t <= DefaultTtlHours) =>
            api.result = [kind |-> "dict",
                          financial |-> lastw[key].financial,
                          ai_financial_context |-> lastw[key].ai_financial_context]

\* a read under the lower-case symbol, some hours after a write that replaced
\* an older row, returned what was written
C10_Witness ==
    /\ api.op = "read"
    /\ api.symbol = "a"
    /\ api.ttl = DefaultTtlHours
    /\ lastw["A"].written
    /\ lastw["A"].financial.id = "F1"
    /\ lastw["A"].ai_financial_context.id = "C1"
    /\ api.at > lastw["A"].t
    /\ api.at - lastw["A"].t <= DefaultTtlHours
    /\ api.result.kind = "dict"
    /\ api.result.financial.id = "F1"
    /\ api.result.ai_financial_context.id = "C1"

----------------------------------------------------------------------------
(* SpecMerge: _merge_realtime_snapshot applied to any two snapshots over   *)
(* three of the realtime keys, each key missing, None or set.              *)

MergeKeys == {"price", "stock_name", "currency"}

\* the dicts over subsets of MergeKeys whose values are None or v
SnapshotsOf(v) ==
    UNION { [ks -> {Null, v}] : ks \in SUBSET MergeKeys }

InitMerge ==
    /\ mrg \in { [op |-> "input", primary |-> p, fallback |-> f, merged |-> <<>>] :
                    p \in SnapshotsOf("finnhub"), f \in SnapshotsOf("yfinance") }
    /\ cache = EmptyCache
    /\ now = 0
    /\ api = IdleApi
    /\ lastw = IdleLastw
    /\ fetch = IdleFetch
    /\ req = IdleReq
    /\ units = <<>>
    /\ results = <<>>
    /\ out = <<>>
    /\ thr = IdleThr
    /\ lock = IdleLock
    /\ calc = IdleCalc

MergeCall ==
    /\ mrg.op = "input"
    /\ mrg' = [mrg EXCEPT !.op = "merged",
                          !.merged = _merge_realtime_snapshot(mrg.primary, mrg.fallback)]
    /\ UNCHANGED <<cache, now, api, lastw, fetch, req, units, results, out, thr, lock, calc>>

NextMerge == MergeCall

SpecMerge == InitMerge /\ [][NextMerge]_vars

\* C6: in the merged realtime snapshot every field that was non-null after the
\* earlier adapter keeps exactly that value; the later adapter's value appears
\* only in fields that were null or missing after the earlier adapter.
C6_MergeKeepsPresentFields ==
    mrg.op = "merged" =>
        /\ \A k \in DOMAIN mrg.primary :
              mrg.primary[k] # Null =>
                  k \in DOMAIN mrg.merged /\ mrg.merged[k] = mrg.primary[k]
        /\ \A k \in DOMAIN mrg.merged :
              mrg.merged[k] = "yfinance" => DictGet(mrg.primary, k) = Null

\* a merge of two snapshots that both set price, where the earlier one had no
\* stock_name and the later one did
C6_Witness ==
    /\ mrg.op = "merged"
    /\ "price" \in DOMAIN mrg.primary /\ mrg.primary["price"] = "finnhub"
    /\ "price" \in DOMAIN mrg.fallback /\ mrg.fallback["price"] = "yfinance"
    /\ mrg.merged["price"] = "finnhub"
    /\ "stock_name" \in DOMAIN mrg.primary /\ mrg.primary["stock_name"] = Null
    /\ mrg.merged["stock_name"] = "yfinance"

----------------------------------------------------------------------------
(* SpecFetch: get_stock_bundle called again and again for one symbol       *)
(* against the cache, the sources answering or failing step by step, the   *)
(* clock advancing between the calls.  `trace` keeps what each source did. *)

FetchSymbols  == {"a", "A"}
FetchKeys     == {"", " ", "k"}
FetchTtlRaws  == {"12", "0", "6"}

InitFetch ==
    /\ cache \in { [EmptyCache EXCEPT !["A"] = r] : r \in InitRows }
    /\ now = 0
    /\ fetch = IdleFetch
    /\ api = IdleApi
    /\ lastw = IdleLastw
    /\ mrg = IdleMrg
    /\ req = IdleReq
    /\ units = <<>>
    /\ results = <<>>
    /\ out = <<>>
    /\ thr = IdleThr
    /\ lock = IdleLock
    /\ calc = IdleCalc

FetchCall(symbol, finnhub_api_key, force_refresh_financial, ttl_raw) ==
    /\ fetch.pc = "idle"
    /\ fetch' = StartUnit(symbol, finnhub_api_key, force_refresh_financial, ttl_raw)
                    @@ [trace |-> {}]
    /\ UNCHANGED <<cache, now, api, lastw, mrg, req, units, results, out, thr, lock, calc>>

FetchStep ==
    /\ fetch.pc \notin {"idle", "done", "raised"}
    /\ \E o \in Outcomes(fetch) :
          /\ o \in FailureOutcomes => fetch.nfail < MaxFailures
          /\ LET r == Step(fetch, o, cache, now)
             IN  /\ fetch' = [r.u EXCEPT !.trace = @ \cup {<<fetch.pc, o>>},
                                         !.nfail = IF o \in FailureOutcomes THEN @ + 1 ELSE @]
                 /\ cache' = r.cache
    /\ UNCHANGED <<now, api, lastw, mrg, req, units, results, out, thr, lock, calc>>

\* the caller has the Bundle, or the exception, and the call is over
FetchReturn ==
    /\ fetch.pc \in {"done", "raised"}
    /\ fetch' = IdleFetch
    /\ UNCHANGED <<cache, now, api, lastw, mrg, req, units, results, out, thr, lock, calc>>

FetchTick ==
    /\ fetch.pc = "idle"
    /\ Tick
    /\ UNCHANGED <<cache, fetch, api, lastw, mrg, req, units, results, out, thr, lock, calc>>

NextFetch ==
    \/ \E s \in FetchSymbols, k \in FetchKeys, f \in BOOLEAN, r \in FetchTtlRaws :
          FetchCall(s, k, f, r)
    \/ FetchStep
    \/ FetchReturn
    \/ FetchTick

SpecFetch == InitFetch /\ [][NextFetch]_vars

\* the source called at step pc did o in the current fetch
Did(pc, o) == <<pc, o>> \in fetch.trace

\* C3: the failure of a source call (primary API, statistics library, scrape,
\* news, cache read, cache write) never leaves fetch as an exception: the fetch
\* ends with a Bundle that has no `error` key and holds what the sources that
\* succeeded returned.
C3_SourceFailureIsAbsorbed ==
    /\ fetch.pc = "raised" =>
          (Did("merge", "unhandled_runtime") \/ Did("merge", "unhandled_key"))
    /\ fetch.pc = "done" =>
          /\ "error" \notin DOMAIN fetch.stock
          /\ Did("primary", "ok_price") =>
                /\ fetch.stock.realtime["price"] = "finnhub"
                /\ fetch.stock.realtime["stock_name"] = "finnhub"
          /\ (Did("fallback", "ok_price") /\ fetch.finnhub_api_key = "") =>
                fetch.stock.realtime["price"] = "yfinance"
          /\ (Did("fallback", "ok_price") /\ ~Did("primary", "ok_price")) =>
                fetch.stock.realtime["price"] = "yfinance"
          /\ (Did("primary", "ok_noprice") \/ Did("primary", "quote_error")) =>
                fetch.stock.realtime["stock_name"] = "finnhub"
          /\ Did("statements", "ok") => fetch.stock.financial.id = "F1"
          /\ Did("context", "ok") => fetch.stock.ai_financial_context.id = "C1"
          /\ fetch.cached_payload.kind = "dict" =>
                /\ fetch.stock.financial.id = fetch.cached_payload.financial.id
                /\ fetch.stock.ai_financial_context = fetch.cached_payload.ai_financial_context
          /\ Did("forecast", "ok") => fetch.stock.forecast["forward_pe"] = "yahoo"
          /\ Did("prediction", "ok") => fetch.stock.forecast["eps_forecast"] = "yfinance"
          /\ (Did("forecast", "ok") /\ ~Did("prediction", "ok")) =>
                fetch.stock.forecast["eps_forecast"] = "yahoo"
          /\ Did("news_finnhub", "ok") => fetch.stock.news = <<"finnhub">>
          /\ Did("news_rss", "ok") => fetch.stock.news = <<"rss">>
          /\ Did("expectation", "ok") =>
                fetch.stock.expectation_guidance.beat_miss.latest_result = "beat"

\* a fetch whose primary API call raised returned a Bundle with the fallback's
\* price, the computed statements and the scraped forecast
C3_Witness ==
    /\ fetch.pc = "done"
    /\ Did("primary", "raise_http")
    /\ Did("fallback", "ok_price")
    /\ Did("statements", "ok")
    /\ Did("forecast", "ok")
    /\ "error" \notin DOMAIN fetch.stock
    /\ fetch.stock.realtime["price"] = "yfinance"
    /\ fetch.stock.financial.id = "F1"
    /\ fetch.stock.forecast["forward_pe"] = "yahoo"

\* C5: a Bundle returned by fetch has a `warnings` key if and only if at least
\* one issue was recorded during the pipeline, and then the list is not empty.
C5_WarningsIffIssueRecorded ==
    fetch.pc = "done" =>
        /\ ("warnings" \in DOMAIN fetch.stock) <=> (fetch.issues # <<>>)
        /\ "warnings" \in DOMAIN fetch.stock => fetch.stock.warnings # <<>>

\* a fetch in which the scrape failed with HTTP 429 returned a Bundle whose
\* warnings name the source and the status
C5_Witness ==
    /\ fetch.pc = "done"
    /\ Did("forecast", "raise")
    /\ "warnings" \in DOMAIN fetch.stock
    /\ \E i \in 1..Len(fetch.stock.warnings) :
          /\ fetch.stock.warnings[i].source = "yahoo.forecast"
          /\ "status_code" \in DOMAIN fetch.stock.warnings[i]
          /\ fetch.stock.warnings[i].status_code = "429"

\* C7: the primary-API adapter is invoked only with a non-empty credential, and
\* the statistics-library realtime adapter is invoked if and only if the
\* credential is absent or price is still null after the primary adapter.
C7_RealtimeAdapterOrder ==
    fetch.pc \notin {"idle", "primary", "fallback"} =>
        /\ "finnhub" \in fetch.calls => fetch.finnhub_api_key # ""
        /\ "yfinance.realtime" \in fetch.calls <=>
              (fetch.finnhub_api_key = "" \/ ~Did("primary", "ok_price"))

\* with a credential, the primary adapter returned no price and the fallback ran
C7_Witness ==
    /\ fetch.pc = "cache_read"
    /\ fetch.finnhub_api_key = "k"
    /\ Did("primary", "ok_noprice")
    /\ fetch.calls = {"finnhub", "yfinance.realtime"}

\* ---------------------------------------------------------------------------
\* The orchestrator: parse_symbols and fetch_multiple_stocks (src/app.py)

\* app.py line 148: at most this many symbols per request
MaxSymbols == 10

\* app.py line 289: the widest worker pool
PoolMax == 8

\* app.py line 325: the sort key of a Bundle whose symbol was not requested
MissingOrder == 999

Range(seq) == { seq[i] : i \in 1..Len(seq) }

Min(a, b) == IF a < b THEN a ELSE b

\* app.py lines 140-148, over the comma-separated tokens of raw
RECURSIVE ParseTokens(_, _)
ParseTokens(tokens, symbols) ==
    IF tokens = <<>> THEN symbols
    ELSE LET symbol == Upper(Strip(Head(tokens)))
         IN  ParseTokens(Tail(tokens),
                         IF symbol # "" /\ symbol \notin Range(symbols)
                         THEN Append(symbols, symbol) ELSE symbols)

parse_symbols(raw) ==
    IF raw = <<>> THEN <<>>
    ELSE LET symbols == ParseTokens(raw, <<>>)
         IN  SubSeq(symbols, 1, Min(Len(symbols), MaxSymbols))

\* what the sources do during one unit of work: an outcome for every step
EnvOk ==
    [pc \in {"primary", "fallback", "cache_read", "statements", "context",
             "cache_write", "forecast", "prediction", "merge", "news_finnhub",
             "news_rss", "expectation", "finish"} |->
        IF pc = "primary" THEN "ok_price" ELSE "ok"]

EnvDegraded ==
    [EnvOk EXCEPT !["primary"] = "raise_http", !["fallback"] = "ok_price",
                  !["cache_read"] = "raise", !["forecast"] = "raise",
                  !["news_finnhub"] = "empty"]

OrchEnvs ==
    { EnvOk, EnvDegraded,
      [EnvOk EXCEPT !["merge"] = "unhandled_runtime"],
      [EnvOk EXCEPT !["merge"] = "unhandled_key"] }

\* get_stock_bundle from its first statement to its return or its exception
RECURSIVE RunPipeline(_, _, _, _)
RECURSIVE RunFrom(_, _, _)
RunPipeline(u, env, c, t) ==
    IF u.pc \in {"done", "raised"} THEN [u |-> u, cache |-> c]
    ELSE RunFrom(Step(u, IF "skip" \in Outcomes(u) THEN "skip" ELSE env[u.pc], c, t), env, t)

\* the pipeline goes on from the unit and the cache a step left
RunFrom(r, env, t) == RunPipeline(r.u, env, r.cache, t)

\* str.strip on a text held as a sequence of pieces
RECURSIVE StripPieces(_)
StripPieces(ps) ==
    IF ps = <<>> THEN <<>>
    ELSE IF Head(ps) \in {"", " "} THEN StripPieces(Tail(ps))
    ELSE IF ps[Len(ps)] \in {"", " "} THEN StripPieces(SubSeq(ps, 1, Len(ps) - 1))
    ELSE ps

\* app.py line 305: the prefix (a Chinese phrase and a colon in the source), the
\* exception's type name and its message, stripped
error_text(exc) ==
    StripPieces(<<"fetch failed:", " ", exc.type, ":", " ", exc.text>>)

\* app.py lines 311-322
ErrorBundle(symbol, exc) ==
    [symbol |-> symbol,
     error |-> error_text(exc),
     currency |-> [quote |-> Null, financial |-> Null, forecast |-> Null],
     realtime |-> [stock_name |-> Null, trade_date |-> Null, currency |-> Null],
     financial |-> [currency |-> Null],
     forecast |-> [currency |-> Null],
     news |-> <<>>,
     expectation_guidance |-> <<>>]

\* the longest raw symbol list a request carries, in tokens
MaxTokens == 2

RawTokens == {"", " a", "A ", "b", "a$"}

RawLists == UNION { [1..n -> RawTokens] : n \in 0..MaxTokens }

OrchKeys == {"", "k"}

\* a future of the pool: queued, running get_stock_bundle, or finished with a
\* returned Bundle or a raised exception
Future(symbol) ==
    [symbol |-> symbol, st |-> "queued", kind |-> "none", stock |-> <<>>,
     exc |-> NoExc, collected |-> FALSE]

Running == { i \in 1..Len(units) : units[i].st = "running" }

\* app.py line 289: max_workers
max_workers == Min(PoolMax, IF Len(req.symbols) = 0 THEN 1 ELSE Len(req.symbols))

\* app.py line 324
order(symbols, symbol) ==
    IF symbol \in Range(symbols)
    THEN (CHOOSE i \in 1..Len(symbols) :
             symbols[i] = symbol /\ \A j \in (i + 1)..Len(symbols) : symbols[j] # symbol) - 1
    ELSE MissingOrder

\* list.sort(key=...): stable, ascending by key
RECURSIVE InsertByKey(_, _, _)
InsertByKey(sorted, item, symbols) ==
    IF sorted = <<>> THEN <<item>>
    ELSE IF order(symbols, sorted[Len(sorted)].symbol) <= order(symbols, item.symbol)
    THEN Append(sorted, item)
    ELSE Append(InsertByKey(SubSeq(sorted, 1, Len(sorted) - 1), item, symbols),
                sorted[Len(sorted)])

RECURSIVE SortLoop(_, _, _)
SortLoop(items, sorted, symbols) ==
    IF items = <<>> THEN sorted
    ELSE SortLoop(Tail(items), InsertByKey(sorted, Head(items), symbols), symbols)

\* results left in completion order
SortSkipped(items, symbols) == items

\* app.py line 325
SortResults(items, symbols) == SortLoop(items, <<>>, symbols)

Init ==
    /\ req = IdleReq
    /\ units = <<>>
    /\ results = <<>>
    /\ out = <<>>
    /\ thr = IdleThr
    /\ lock = IdleLock
    /\ calc = IdleCalc
    /\ cache = EmptyCache
    /\ now = 0
    /\ api = IdleApi
    /\ lastw = IdleLastw
    /\ mrg = IdleMrg
    /\ fetch = IdleFetch

\* a route parses the request and enters fetch_multiple_stocks, which submits
\* one get_stock_bundle per symbol (lines 288-298)
Request(raw, finnhub_api_key, force_refresh_financial) ==
    /\ req.op \in {"none", "returned"}
    /\ LET symbols == parse_symbols(raw)
       IN  /\ req' = [op |-> "fetch",
                      symbols |-> symbols,
                      finnhub_api_key |-> Strip(finnhub_api_key),
                      force_refresh_financial |-> force_refresh_financial]
           /\ units' = [i \in 1..Len(symbols) |-> Future(symbols[i])]
    /\ results' = <<>>
    /\ out' = <<>>
    /\ UNCHANGED <<cache, now, api, lastw, mrg, fetch, thr, lock, calc>>

\* a free worker takes the oldest queued future
UnitStart(i) ==
    /\ req.op = "fetch"
    /\ i \in 1..Len(units)
    /\ units[i].st = "queued"
    /\ \A j \in 1..(i - 1) : units[j].st # "queued"
    /\ Cardinality(Running) < max_workers
    /\ units' = [units EXCEPT ![i].st = "running"]
    /\ UNCHANGED <<req, results, out, cache, now, api, lastw, mrg, fetch, thr, lock, calc>>

\* the future of unit i holds what the run r of its pipeline ended with
UnitFinished(i, r) ==
    /\ units' = [units EXCEPT
                    ![i].st = "finished",
                    ![i].kind = IF r.u.pc = "raised" THEN "exception" ELSE "result",
                    ![i].stock = r.u.stock,
                    ![i].exc = r.u.raised]
    /\ cache' = r.cache

\* a pool thread runs get_stock_bundle for unit i to its end
UnitFinish(i, env) ==
    /\ req.op = "fetch"
    /\ i \in 1..Len(units)
    /\ units[i].st = "running"
    /\ UnitFinished(i, RunPipeline(StartUnit(units[i].symbol, req.finnhub_api_key,
                                             req.force_refresh_financial, "12"),
                                   env, cache, now))
    /\ UNCHANGED <<req, results, out, now, api, lastw, mrg, fetch, thr, lock, calc>>

\* a loop body with no except clause: the future's exception leaves the function
CollectNoCatch(i) ==
    /\ req.op = "fetch"
    /\ i \in 1..Len(units)
    /\ units[i].st = "finished"
    /\ ~units[i].collected
    /\ units' = [units EXCEPT ![i].collected = TRUE]
    /\ IF units[i].kind = "exception"
       THEN /\ req' = [req EXCEPT !.op = "raised"]
            /\ results' = results
       ELSE /\ req' = req
            /\ results' = Append(results, units[i].stock)
    /\ UNCHANGED <<out, cache, now, api, lastw, mrg, fetch, thr, lock, calc>>

\* lines 299-322: as_completed yields a finished future; its Bundle, or the
\* error Bundle in its place, is appended
Collect(i) ==
    /\ req.op = "fetch"
    /\ i \in 1..Len(units)
    /\ units[i].st = "finished"
    /\ ~units[i].collected
    /\ units' = [units EXCEPT ![i].collected = TRUE]
    /\ results' = Append(results,
                         IF units[i].kind = "exception"
                         THEN ErrorBundle(units[i].symbol, units[i].exc)
                         ELSE units[i].stock)
    /\ UNCHANGED <<req, out, cache, now, api, lastw, mrg, fetch, thr, lock, calc>>

\* lines 324-326: every future collected, the pool closed, the results sorted
Return ==
    /\ req.op = "fetch"
    /\ \A i \in 1..Len(units) : units[i].collected
    /\ out' = SortResults(results, req.symbols)
    /\ req' = [req EXCEPT !.op = "returned"]
    /\ UNCHANGED <<units, results, cache, now, api, lastw, mrg, fetch, thr, lock, calc>>

Next ==
    \/ \E raw \in RawLists, k \in OrchKeys, f \in BOOLEAN : Request(raw, k, f)
    \/ \E i \in 1..MaxSymbols : UnitStart(i)
    \/ \E i \in 1..MaxSymbols, env \in OrchEnvs : UnitFinish(i, env)
    \/ \E i \in 1..MaxSymbols : Collect(i)
    \/ Return

Spec == Init /\ [][Next]_vars

\* C1: an exception raised by one symbol's unit of work never leaves
\* fetch_multiple_stocks: every symbol whose unit returned has exactly the
\* Bundle its unit computed, and the failing symbol has a Bundle whose `error`
\* is a non-empty text carrying the exception's type name and message.
C1_UnitExceptionIsIsolated ==
    /\ req.op # "raised"
    /\ req.op = "returned" =>
          /\ Len(out) = Len(units)
          /\ \A i \in 1..Len(units) :
                /\ units[i].kind = "result" => out[i] = units[i].stock
                /\ units[i].kind = "exception" =>
                      /\ "error" \in DOMAIN out[i]
                      /\ out[i].error # <<>>
                      /\ units[i].exc.type \in Range(out[i].error)
                      /\ units[i].exc.text # "" =>
                            units[i].exc.text \in Range(out[i].error)

\* a batch of two returned: the first symbol's unit raised, the second has the
\* Bundle its unit computed
C1_Witness ==
    /\ req.op = "returned"
    /\ Len(units) = 2
    /\ units[1].kind = "exception"
    /\ units[2].kind = "result"
    /\ out[2] = units[2].stock
    /\ "error" \notin DOMAIN out[2]
    /\ "RuntimeError" \in Range(out[1].error)
    /\ "boom" \in Range(out[1].error)

\* C2: whatever the completion order of the units, fetch_multiple_stocks
\* returns exactly one Bundle per requested symbol, the i-th Bundle being
\* the one of the i-th requested symbol.
C2_ResultsInRequestedOrder ==
    req.op = "returned" =>
        /\ Len(out) = Len(req.symbols)
        /\ \A i \in 1..Len(out) : out[i].symbol = req.symbols[i]

\* the second requested symbol completed first, and the returned list is in
\* requested order all the same
C2_Witness ==
    /\ req.op = "returned"
    /\ Len(req.symbols) = 2
    /\ results[1].symbol = req.symbols[2]
    /\ out[1].symbol = req.symbols[1]
    /\ out[2].symbol = req.symbols[2]

\* the keys of a Bundle that get_stock_bundle returns (stock_service.py lines
\* 2719-2729)
BundleKeys ==
    {"symbol", "currency", "realtime", "financial", "forecast",
     "ai_financial_context", "news", "expectation_guidance"}

\* C4: the error Bundle put in place of a failed symbol has `symbol`, a
\* non-empty `error` and every sub-object key of a successful Bundle
\* (currency, realtime, financial, forecast, ai_financial_context, news,
\* expectation_guidance).
C4_ErrorBundleHasEveryKey ==
    req.op = "returned" =>
        \A i \in 1..Len(out) :
            "error" \in DOMAIN out[i] =>
                /\ out[i].error # <<>>
                /\ BundleKeys \subseteq DOMAIN out[i]

----------------------------------------------------------------------------
(* SpecWriters: threads of the worker pool calling the cache at the same   *)
(* time.  A call prepares its arguments, takes _DB_LOCK, runs its one SQL  *)
(* statement, releases the lock and, for a read, decodes the row.          *)

\* the number of threads calling the cache
Writers == 2

Threads == 1..Writers

IdleThread ==
    [pc |-> "idle", target |-> "", financial |-> NoneVal, ai_financial_context |-> NoneVal,
     updated_at |-> 0, row |-> NoRow, prev |-> NoRow, result |-> NoPayload]

WriterSymbols == {"", "a", "A"}

\* reads also ask for a symbol nobody has written
ReaderSymbols == WriterSymbols \cup {"b"}

\* the snapshots one pipeline run hands to a write: the statements and the
\* context built from them
WriterPairs == { <<Dict("F1"), Dict("C1")>>, <<Dict("F2"), Dict("C2")>> }

InitWriters ==
    /\ cache \in { [EmptyCache EXCEPT !["A"] = r] : r \in {NoRow, StaleRow("object", TRUE)} }
    /\ now = 0
    /\ thr = [t \in Threads |-> IdleThread]
    /\ lock = IdleLock
    /\ lastw = IdleLastw
    /\ api = IdleApi
    /\ mrg = IdleMrg
    /\ fetch = IdleFetch
    /\ req = IdleReq
    /\ units = <<>>
    /\ results = <<>>
    /\ out = <<>>
    /\ calc = IdleCalc

\* set_cached_financial_bundle lines 366-375: target, payload and updated_at
\* are computed before the lock is taken
WBegin(t, symbol, pair) ==
    /\ thr[t].pc = "idle"
    /\ thr' = [thr EXCEPT ![t] =
                 IF Upper(Strip(symbol)) = "" THEN IdleThread
                 ELSE [IdleThread EXCEPT !.pc = "w_ready",
                                         !.target = Upper(Strip(symbol)),
                                         !.financial = pair[1],
                                         !.ai_financial_context = pair[2],
                                         !.updated_at = now]]
    /\ UNCHANGED <<cache, now, lock, lastw, api, mrg, fetch, req, units, results, out, calc>>

\* get_cached_financial_bundle lines 325-330
RBegin(t, symbol) ==
    /\ thr[t].pc = "idle"
    /\ thr' = [thr EXCEPT ![t] =
                 IF Upper(Strip(symbol)) = "" THEN IdleThread
                 ELSE [IdleThread EXCEPT !.pc = "r_ready", !.target = Upper(Strip(symbol))]]
    /\ UNCHANGED <<cache, now, lock, lastw, api, mrg, fetch, req, units, results, out, calc>>

\* a `with` block that is entered without waiting for the lock
AcquireWithoutWaiting(t) ==
    /\ thr[t].pc \in {"w_ready", "r_ready"}
    /\ lock' = t
    /\ thr' = [thr EXCEPT ![t].pc = IF @ = "w_ready" THEN "w_locked" ELSE "r_locked"]
    /\ UNCHANGED <<cache, now, lastw, api, mrg, fetch, req, units, results, out, calc>>

\* `with _DB_LOCK:` entered
Acquire(t) ==
    /\ thr[t].pc \in {"w_ready", "r_ready"}
    /\ lock = IdleLock
    /\ lock' = t
    /\ thr' = [thr EXCEPT ![t].pc = IF @ = "w_ready" THEN "w_locked" ELSE "r_locked"]
    /\ UNCHANGED <<cache, now, lastw, api, mrg, fetch, req, units, results, out, calc>>

\* lines 379-390: the upsert and its commit
Upsert(t) ==
    /\ thr[t].pc = "w_locked"
    /\ cache' = set_cached_financial_bundle(cache, thr[t].target, thr[t].financial,
                                            thr[t].ai_financial_context, thr[t].updated_at)
    /\ lastw' = [lastw EXCEPT ![thr[t].target] =
                    [written |-> TRUE, financial |-> thr[t].financial,
                     ai_financial_context |-> thr[t].ai_financial_context,
                     t |-> thr[t].updated_at]]
    /\ thr' = [thr EXCEPT ![t].pc = "w_done", ![t].prev = cache[thr[t].target]]
    /\ UNCHANGED <<now, lock, api, mrg, fetch, req, units, results, out, calc>>

\* lines 335-338: the SELECT
Select(t) ==
    /\ thr[t].pc = "r_locked"
    /\ thr' = [thr EXCEPT ![t].pc = "r_done", ![t].row = cache[thr[t].target]]
    /\ UNCHANGED <<cache, now, lock, lastw, api, mrg, fetch, req, units, results, out, calc>>

\* the with block left: a write returns, a read goes on to decode its row
Release(t) ==
    /\ thr[t].pc \in {"w_done", "r_done"}
    /\ lock = t
    /\ lock' = IdleLock
    /\ thr' = [thr EXCEPT ![t] = IF @.pc = "w_done" THEN IdleThread
                                 ELSE [@ EXCEPT !.pc = "r_decode"]]
    /\ UNCHANGED <<cache, now, lastw, api, mrg, fetch, req, units, results, out, calc>>

\* lines 342-362, on the row the SELECT returned
Decode(t) ==
    /\ thr[t].pc = "r_decode"
    /\ thr' = [thr EXCEPT
                 ![t].pc = "r_returned",
                 ![t].result = get_cached_financial_bundle(
                                   [EmptyCache EXCEPT ![thr[t].target] = thr[t].row],
                                   thr[t].target, DefaultTtlHours, now)]
    /\ UNCHANGED <<cache, now, lock, lastw, api, mrg, fetch, req, units, results, out, calc>>

\* the caller takes the result
RReturn(t) ==
    /\ thr[t].pc = "r_returned"
    /\ thr' = [thr EXCEPT ![t] = IdleThread]
    /\ UNCHANGED <<cache, now, lock, lastw, api, mrg, fetch, req, units, results, out, calc>>

WTick ==
    /\ Tick
    /\ UNCHANGED <<cache, lock, thr, lastw, api, mrg, fetch, req, units, results, out, calc>>

NextWriters ==
    \/ \E t \in Threads, s \in WriterSymbols, p \in WriterPairs : WBegin(t, s, p)
    \/ \E t \in Threads, s \in ReaderSymbols : RBegin(t, s)
    \/ \E t \in Threads : Acquire(t)
    \/ \E t \in Threads : Upsert(t)
    \/ \E t \in Threads : Select(t)
    \/ \E t \in Threads : Release(t)
    \/ \E t \in Threads : Decode(t)
    \/ \E t \in Threads : RReturn(t)
    \/ WTick

SpecWriters == InitWriters /\ [][NextWriters]_vars

\* the snapshots belong to one pipeline run: F1 with C1, F2 with C2
SamePair(financial, ai_financial_context) ==
    \E p \in WriterPairs : p[1] = financial /\ p[2] = ai_financial_context

\* C11: under every interleaving of concurrent writes and reads the table has
\* one row per normalised symbol, the row holds the financial snapshot and the
\* context of the write that committed last for that symbol, and neither the
\* row nor a reader's result pairs the financial part of one write with the
\* context of another.
C11_OneEntryLastWriteWins ==
    /\ DOMAIN cache = CacheKeys
    /\ \A k \in CacheKeys :
          /\ lastw[k].written =>
                /\ cache[k].present
                /\ cache[k].payload_json.kind = "object"
                /\ cache[k].payload_json.financial = lastw[k].financial
                /\ cache[k].payload_json.ai_financial_context = lastw[k].ai_financial_context
                /\ cache[k].updated_at = [ok |-> TRUE, t |-> lastw[k].t]
          /\ cache[k].present =>
                SamePair(cache[k].payload_json.financial,
                         cache[k].payload_json.ai_financial_context)
    /\ \A t \in Threads :
          thr[t].result.kind = "dict" =>
              SamePair(thr[t].result.financial, thr[t].result.ai_financial_context)

\* a write prepared at hour 0 has just overwritten the row that another write,
\* prepared later, had committed before it; a reader holds the earlier pair
C11_Witness ==
    \E t \in Threads, r \in Threads :
        /\ thr[t].pc = "w_done"
        /\ thr[t].prev.present
        /\ thr[t].prev.updated_at.t > thr[t].updated_at
        /\ thr[t].prev.payload_json.financial # thr[t].financial
        /\ cache[thr[t].target].payload_json.financial = thr[t].financial
        /\ cache[thr[t].target].payload_json.ai_financial_context = thr[t].ai_financial_context
        /\ thr[r].pc = "r_decode"
        /\ thr[r].row = thr[t].prev

\* a stored row that does not parse: bad timestamp, undecodable payload, or a
\* payload that is no object
Malformed(row) ==
    /\ row.present
    /\ \/ ~row.updated_at.ok
       \/ row.payload_json.kind \in {"array", "garbage"}

IssueSources(issues) == { issues[i].source : i \in 1..Len(issues) }

\* thread t is inside a `with _DB_LOCK:` block, before or after its statement
InStore(t) == thr[t].pc \in {"w_locked", "w_done", "r_locked", "r_done"}

\* C23: reads and writes of the store are serialised by the one lock: at no
\* time are two threads inside a store operation, whatever the symbols, and
\* a thread inside one holds the lock.
C23_StoreOperationsSerialized ==
    \A t \in Threads :
        InStore(t) =>
            /\ lock = t
            /\ \A u \in Threads : InStore(u) => u = t

\* a write of one symbol is in the store while a read of another symbol
\* waits for the lock
C23_Witness ==
    \E t, u \in Threads :
        /\ thr[t].pc = "w_locked"
        /\ thr[u].pc = "r_ready"
        /\ thr[t].target # thr[u].target
        /\ lock = t

\* C12: when the stored entry of the symbol is malformed, the read returns
\* null exactly as for an absent entry, raising nothing, and the pipeline
\* goes on as after a miss: it computes the statements and records no warning
\* for the read.
C12_MalformedEntryIsSilentMiss ==
    (/\ fetch.pc \in {"statements", "context", "cache_write"}
     /\ Did("cache_read", "ok")
     /\ Malformed(cache[fetch.symbol])) =>
        /\ fetch.cached_payload = NoPayload
        /\ fetch.cached_payload =
              get_cached_financial_bundle(EmptyCache, fetch.symbol,
                                          _financial_cache_ttl_hours(fetch.ttl_raw), now)
        /\ "cache.financial.read" \notin IssueSources(fetch.issues)
        /\ fetch.pc \in {"context", "cache_write"} => "yfinance.financial" \in fetch.calls

\* a fetch read a row whose payload does not decode, computed the statements
\* and the context, and has recorded no issue
C12_Witness ==
    /\ fetch.pc = "cache_write"
    /\ Did("cache_read", "ok")
    /\ cache[fetch.symbol].present
    /\ cache[fetch.symbol].payload_json.kind = "garbage"
    /\ fetch.cached_payload = NoPayload
    /\ "yfinance.financial" \in fetch.calls
    /\ fetch.issues = <<>>

\* C13: with the cache TTL for fetches set to 0, every fetch treats the cache
\* lookup as a miss and computes the statements again, and the lookup leaves
\* the stored row in place.
C13_ZeroTtlDisablesReads ==
    (/\ fetch.pc \in {"statements", "context", "cache_write"}
     /\ fetch.ttl_raw = "0"
     /\ Did("cache_read", "ok")) =>
        /\ fetch.cached_payload = NoPayload
        /\ fetch.pc \in {"context", "cache_write"} => "yfinance.financial" \in fetch.calls

\* the steps of a fetch after the financial part (lines 2648-2729)
AfterFinancial == {"forecast", "prediction", "merge", "news_finnhub", "news_rss",
                   "expectation", "finish", "done"}

\* what the stored row of the fetch's symbol decodes to
StoredPayload == json_loads(cache[fetch.symbol].payload_json).value

\* C25: when force-refresh is not set and the cache read returned a fresh
\* payload, the fetch never calls the statement computation or the context
\* builder and never writes to the cache, and its Bundle carries the cached
\* financial snapshot (with the currency code the currency step resolves) and
\* the cached context.
C25_FreshHitSkipsComputationAndWrite ==
    (/\ fetch.pc \in AfterFinancial
     /\ ~fetch.force_refresh_financial
     /\ fetch.cached_payload.kind = "dict") =>
        /\ fetch.calls \cap {"yfinance.financial", "yfinance.context", "cache.write"} = {}
        /\ fetch.financial.id = fetch.cached_payload.financial.id
        /\ fetch.ai_financial_context = fetch.cached_payload.ai_financial_context
        /\ fetch.pc = "done" =>
              /\ fetch.stock.financial.id = fetch.cached_payload.financial.id
              /\ fetch.stock.financial.currency = fetch.stock.currency.financial
              /\ fetch.stock.ai_financial_context = fetch.cached_payload.ai_financial_context

\* a fetch without force-refresh read a fresh row and returned a Bundle with
\* the row's snapshot and context
C25_Witness ==
    /\ fetch.pc = "done"
    /\ ~fetch.force_refresh_financial
    /\ Did("cache_read", "ok")
    /\ fetch.cached_payload.kind = "dict"
    /\ fetch.stock.financial.id = "F2"
    /\ fetch.stock.ai_financial_context = Dict("C2")

\* C26: a fetch that has no usable cache payload (no row, an expired or
\* malformed row, a failed read, or force-refresh, where the cache is not read)
\* computes the snapshot and the context and calls the cache write before it
\* returns; when the write did not fail, the stored row is the one this
\* fetch computed, stamped with the time of the fetch.
C26_MissComputesAndWrites ==
    (/\ fetch.pc \in AfterFinancial
     /\ fetch.cached_payload.kind # "dict") =>
        /\ {"yfinance.financial", "yfinance.context", "cache.write"} \subseteq fetch.calls
        /\ fetch.force_refresh_financial => "cache.read" \notin fetch.calls
        /\ Did("cache_write", "ok") =>
              /\ cache[fetch.symbol].present
              /\ cache[fetch.symbol].updated_at = [ok |-> TRUE, t |-> now]
              /\ StoredPayload.kind = "dict"
              /\ StoredPayload.financial.id = fetch.financial.id
              /\ StoredPayload.ai_financial_context = fetch.ai_financial_context

\* a forced refresh over a fresh row replaced it with the snapshot it
\* computed, without reading the cache
C26_Witness ==
    /\ fetch.pc = "done"
    /\ fetch.force_refresh_financial
    /\ Did("cache_write", "ok")
    /\ Did("statements", "ok")
    /\ "cache.read" \notin fetch.calls
    /\ StoredPayload.financial.id = "F1"
    /\ now > 0

\* C27: every source failure that the pipeline catches and turns into "no
\* data from this source" is recorded, so a Bundle of a fetch in which a
\* source call failed carries warnings.
C27_CaughtFailureIsRecorded ==
    (/\ fetch.pc = "done"
     /\ \E e \in fetch.trace : e[2] \in FailureOutcomes) =>
        /\ "warnings" \in DOMAIN fetch.stock
        /\ fetch.stock.warnings # <<>>

\* C29: a fetch with an empty credential in which no source failed records
\* no issue, and its Bundle has no `warnings` key.
C29_EmptyCredentialAloneIsClean ==
    (/\ fetch.pc = "done"
     /\ fetch.finnhub_api_key = ""
     /\ \A e \in fetch.trace : e[2] \notin FailureOutcomes) =>
        /\ fetch.issues = <<>>
        /\ "warnings" \notin DOMAIN fetch.stock

\* C30: a fetch never takes from the cache the all-null snapshot that a
\* failed statement computation of an earlier fetch left: after such a
\* failure a later fetch within the TTL computes the statements again.
C30_FailedSnapshotIsNotServed ==
    (/\ fetch.pc \in AfterFinancial
     /\ fetch.cached_payload.kind = "dict") =>
        fetch.cached_payload.financial.id # EmptyFinancialSnapshot.id

----------------------------------------------------------------------------
(* stock_service.py: the statement extractor.  A statement frame is the    *)
(* sequence of its columns in the frame's own order; a column is its       *)
(* period end `date`, in days, and its `cells`, one per row label.  A cell *)
(* is a number or not (NaN, None).  Money is in millions, rounded figures  *)
(* are in hundredths.                                                      *)

\* no column: None where a column label is expected
NoColumn == [date |-> 0 - 1, cells |-> <<>>]

\* lines 1224-1225, on the labels the alias lists and the frames use
_normalize_label_key(label) ==
    CASE label \in {"Total Revenue", "TotalRevenue"} -> "totalrevenue"
      [] label = "Revenue" -> "revenue"
      [] label = "Operating Revenue" -> "operatingrevenue"
      [] label = "EPS" -> "eps"
      [] label \in {"Gross Profit", "GrossProfit"} -> "grossprofit"
      [] label \in {"Operating Income", "OperatingIncome"} -> "operatingincome"
      [] label = "Income From Operations" -> "incomefromoperations"
      [] label \in {"Net Income", "NetIncome"} -> "netincome"
      [] label = "Net Income Common Stockholders" -> "netincomecommonstockholders"
      [] label = "Net Income Including Noncontrolling Interests" ->
            "netincomeincludingnoncontrollinginterests"
      [] label \in {"Diluted EPS", "DilutedEPS"} -> "dilutedeps"
      [] label \in {"Basic EPS", "BasicEPS"} -> "basiceps"
      [] label = "Earnings Per Share Diluted" -> "earningspersharediluted"
      [] label = "Diluted NI Availto Com Stockholders" -> "dilutedniavailtocomstockholders"
      [] label = "Diluted NI Available To Com Stockholders" ->
            "dilutedniavailabletocomstockholders"
      [] label = "Diluted NI Avail To Com Stockholders" -> "dilutedniavailtocomstockholders"
      [] label \in {"Diluted Average Shares", "DilutedAverageShares"} -> "dilutedaverageshares"
      [] label = "Weighted Average Shares Diluted" -> "weightedaveragesharesdiluted"
      [] label = "Diluted Shares Outstanding" -> "dilutedsharesoutstanding"
      [] label \in {"Basic Average Shares", "BasicAverageShares"} -> "basicaverageshares"
      [] label = "Weighted Average Shares" -> "weightedaverageshares"
      [] label = "Basic Shares Outstanding" -> "basicsharesoutstanding"
      [] OTHER -> ""

revenue_aliases == <<"Total Revenue", "TotalRevenue", "Revenue">>
gross_profit_aliases == <<"Gross Profit", "GrossProfit">>
operating_income_aliases == <<"Operating Income", "OperatingIncome", "Income From Operations">>
net_income_aliases ==
    <<"Net Income", "NetIncome", "Net Income Common Stockholders",
      "Net Income Including Noncontrolling Interests">>
eps_aliases ==
    <<"Diluted EPS", "DilutedEPS", "Basic EPS", "BasicEPS", "Earnings Per Share Diluted">>

\* the characters of a normalised key, for the keys whose containment is asked
KeyChars(key) ==
    CASE key = "totalrevenue" ->
            <<"t", "o", "t", "a", "l", "r", "e", "v", "e", "n", "u", "e">>
      [] key = "revenue" ->
            <<"r", "e", "v", "e", "n", "u", "e">>
      [] key = "operatingrevenue" ->
            <<"o", "p", "e", "r", "a", "t", "i", "n", "g", "r", "e", "v", "e", "n", "u", "e">>
      [] key = "dilutedeps" ->
            <<"d", "i", "l", "u", "t", "e", "d", "e", "p", "s">>
      [] key = "basiceps" ->
            <<"b", "a", "s", "i", "c", "e", "p", "s">>
      [] key = "earningspersharediluted" ->
            <<"e", "a", "r", "n", "i", "n", "g", "s", "p", "e", "r", "s", "h", "a", "r", "e", "d", "i", "l", "u", "t", "e", "d">>
      [] key = "eps" ->
            <<"e", "p", "s">>
      [] OTHER -> <<>>

\* Python's `a in b` on two strings
Contains(a, b) ==
    \E i \in 0..(Len(b) - Len(a)) : SubSeq(b, i + 1, i + Len(a)) = a

\* the rows whose normalised label is the alias's normalised key
ExactRows(column, alias) ==
    { idx \in DOMAIN column.cells :
        /\ _normalize_label_key(idx) # ""
        /\ _normalize_label_key(idx) = _normalize_label_key(alias) }

\* the rows whose normalised label contains the alias's key or is contained
\* in it, without being equal to it
SubstringRows(column, alias) ==
    { idx \in DOMAIN column.cells :
        LET token == KeyChars(_normalize_label_key(idx))
            key   == KeyChars(_normalize_label_key(alias))
        IN  /\ token # <<>>
            /\ key # <<>>
            /\ token # key
            /\ (Contains(key, token) \/ Contains(token, key)) }

\* the value under the first alias, in list order, one of whose rows (exact
\* or substring) holds a number
RECURSIVE FirstNumberUnder(_, _, _)
FirstNumberUnder(column, aliases, exact) ==
    IF aliases = <<>> THEN NoNum
    ELSE LET rows == IF exact THEN ExactRows(column, Head(aliases))
                     ELSE SubstringRows(column, Head(aliases))
             hit  == { idx \in rows : _is_number_cell(column.cells[idx]) }
         IN  IF hit # {} THEN column.cells[CHOOSE idx \in hit : TRUE]
             ELSE FirstNumberUnder(column, Tail(aliases), exact)

\* an extractor that, finding no exact match, goes on to substring
\* containment in either direction
extract_with_substring_fallback(column, aliases) ==
    IF column.date < 0 THEN NoNum
    ELSE LET exact == FirstNumberUnder(column, aliases, TRUE)
         IN  IF _is_number_cell(exact) THEN exact
             ELSE FirstNumberUnder(column, aliases, FALSE)

\* lines 1267-1292: the value under the first alias whose row holds a number
RECURSIVE _extract_income_stmt_value(_, _)
_extract_income_stmt_value(column, aliases) ==
    IF column.date < 0 \/ aliases = <<>> THEN NoNum
    ELSE LET rows == { idx \in DOMAIN column.cells :
                          /\ _normalize_label_key(idx) # ""
                          /\ _normalize_label_key(idx) = _normalize_label_key(Head(aliases)) }
         IN  IF rows # {} /\ _is_number_cell(column.cells[CHOOSE idx \in rows : TRUE])
             THEN column.cells[CHOOSE idx \in rows : TRUE]
             ELSE _extract_income_stmt_value(column, Tail(aliases))

\* the sort of lines 1240-1241: newest period first
RECURSIVE InsertByDate(_, _)
InsertByDate(sorted, col) ==
    IF sorted = <<>> THEN <<col>>
    ELSE IF sorted[Len(sorted)].date >= col.date THEN Append(sorted, col)
    ELSE Append(InsertByDate(SubSeq(sorted, 1, Len(sorted) - 1), col), sorted[Len(sorted)])

RECURSIVE SortByDate(_, _)
SortByDate(cols, sorted) ==
    IF cols = <<>> THEN sorted
    ELSE SortByDate(Tail(cols), InsertByDate(sorted, Head(cols)))

\* lines 1228-1241
_statement_columns_sorted(df) == SortByDate(df, <<>>)


\* lines 505-508: millions to hundredths of a billion
_to_billions(value) ==
    IF ~_is_number_cell(value) THEN NoNum
    ELSE IF value.v >= 0 THEN Num(RoundDiv(value.v, 10))
    ELSE Num(0 - RoundDiv(0 - value.v, 10))

\* a column has a number in one of the four core rows
CoreUsable(column) ==
    \E aliases \in {revenue_aliases, gross_profit_aliases,
                    operating_income_aliases, net_income_aliases} :
        _is_number_cell(_extract_income_stmt_value(column, aliases))

\* the loop of lines 1492-1499 from columns[i] on: the first column with a
\* core number, `latest_col` (the newest column) when the loop finds none
RECURSIVE FirstUsableFrom(_, _, _)
FirstUsableFrom(columns, i, latest_col) ==
    IF i > Len(columns) THEN latest_col
    ELSE IF CoreUsable(columns[i]) THEN columns[i]
    ELSE FirstUsableFrom(columns, i + 1, latest_col)

\* a selection that takes the newest column whatever it holds
latest_col_is_newest(columns) == columns[1]

\* lines 1491-1499
latest_usable_col(columns) == FirstUsableFrom(columns, 1, columns[1])

\* lines 1245-1258: the column about a year older than latest_col
_find_same_period_last_year(columns, latest_col) ==
    LET cands == { i \in 2..Len(columns) :
                      /\ latest_col.date - columns[i].date >= 250
                      /\ latest_col.date - columns[i].date <= 500 }
        Abs(x) == IF x < 0 THEN 0 - x ELSE x
        Key(i) == <<Abs(latest_col.date - columns[i].date - 365),
                    latest_col.date - columns[i].date>>
        Less(a, b) == a[1] < b[1] \/ (a[1] = b[1] /\ a[2] < b[2])
    IN  IF cands # {}
        THEN columns[CHOOSE i \in cands :
                        \A j \in cands \ {i} :
                            Less(Key(i), Key(j)) \/ (Key(i) = Key(j) /\ i < j)]
        ELSE IF Len(columns) >= 5 THEN columns[5] ELSE NoColumn

\* lines 1501-1504
prev_col_of(columns, latest_col, period_type) ==
    IF period_type = "quarterly" THEN _find_same_period_last_year(columns, latest_col)
    ELSE IF Len(columns) >= 2 THEN columns[2] ELSE NoColumn

\* lines 1471-1527: latest_col, prev_col and the fields computed from them
\* (the three margins are computed from latest_col alone)
_build_financial_from_income_stmt(df, period_type) ==
    LET columns == _statement_columns_sorted(df)
    IN  IF columns = <<>>
        THEN [latest_col |-> NoColumn, prev_col |-> NoColumn, latest_period_type |-> period_type,
              latest_period |-> 0 - 1, revenue_b |-> NoNum, revenue_yoy_pct |-> NoNum,
              net_income_b |-> NoNum, net_income_yoy_pct |-> NoNum, eps |-> NoNum]
        ELSE LET latest_col == latest_usable_col(columns)
                 prev_col   == prev_col_of(columns, latest_col, period_type)
                 revenue_latest    == _extract_income_stmt_value(latest_col, revenue_aliases)
                 revenue_prev      == _extract_income_stmt_value(prev_col, revenue_aliases)
                 net_income_latest == _extract_income_stmt_value(latest_col, net_income_aliases)
                 net_income_prev   == _extract_income_stmt_value(prev_col, net_income_aliases)
                 eps_latest        == _extract_income_stmt_value(latest_col, eps_aliases)
             IN  [latest_col |-> latest_col, prev_col |-> prev_col,
                  latest_period_type |-> period_type,
                  latest_period |-> latest_col.date,
                  revenue_b |-> _to_billions(revenue_latest),
                  revenue_yoy_pct |-> _pct_change(revenue_latest, revenue_prev),
                  net_income_b |-> _to_billions(net_income_latest),
                  net_income_yoy_pct |-> _pct_change(net_income_latest, net_income_prev),
                  eps |-> eps_latest]

\* EPS reconstruction.  Net income is in millions, share counts in
\* thousands and EPS in cents; a quotient is rounded where the model divides
\* (the source rounds it once, with _round, when it stores the EPS).

diluted_ni_aliases ==
    <<"Diluted NI Availto Com Stockholders", "Diluted NI Available To Com Stockholders",
      "Diluted NI Avail To Com Stockholders", "Net Income Common Stockholders", "Net Income">>
diluted_shares_aliases ==
    <<"Diluted Average Shares", "DilutedAverageShares", "Weighted Average Shares Diluted",
      "Diluted Shares Outstanding">>
basic_ni_aliases == <<"Net Income Common Stockholders", "Net Income">>
basic_shares_aliases ==
    <<"Basic Average Shares", "BasicAverageShares", "Weighted Average Shares",
      "Basic Shares Outstanding">>

\* lines 1302-1311: under 1,000,000 shares with a net income of 100,000,000
\* or more, the count is taken to be in millions
_normalize_shares_for_eps(shares, net_income) ==
    IF ~_is_number_cell(shares) THEN NoNum
    ELSE IF shares.v <= 0 THEN NoNum
    ELSE IF /\ shares.v < 1000
            /\ _is_number_cell(net_income)
            /\ (net_income.v >= 100 \/ net_income.v <= 0 - 100)
         THEN Num(shares.v * 1000000)
    ELSE shares

\* float(net_income) / float(shares), in cents
EpsQuotient(net_income, shares) == Num(RoundDiv(net_income.v * 100000, shares.v))

\* lines 1340-1345 and 1347-1352: net income over a share count of the column
EpsFromShares(column, ni_aliases, shares_aliases) ==
    LET ni     == _extract_income_stmt_value(column, ni_aliases)
        shares == _normalize_shares_for_eps(
                      _extract_income_stmt_value(column, shares_aliases), ni)
    IN  IF _is_number_cell(ni) /\ _is_number_cell(shares) /\ shares.v # 0
        THEN EpsQuotient(ni, shares)
        ELSE NoNum

\* lines 1314-1354; `rungs` lists the rungs the function went through
_extract_eps_from_income_stmt(latest_col) ==
    LET eps     == _extract_income_stmt_value(latest_col, eps_aliases)
        diluted == EpsFromShares(latest_col, diluted_ni_aliases, diluted_shares_aliases)
        basic   == EpsFromShares(latest_col, basic_ni_aliases, basic_shares_aliases)
    IN  IF _is_number_cell(eps) THEN [eps |-> eps, rungs |-> <<"a">>]
        ELSE IF _is_number_cell(diluted) THEN [eps |-> diluted, rungs |-> <<"a", "b">>]
        ELSE [eps |-> basic, rungs |-> <<"a", "b", "c">>]

\* lines 1357-1380: fast_info["shares"], else info["sharesOutstanding"]
_extract_eps_from_shares_outstanding(ticker, net_income) ==
    IF ~_is_number_cell(net_income) THEN NoNum
    ELSE LET found  == IF _is_number_cell(ticker.fast_info_shares)
                       THEN ticker.fast_info_shares ELSE ticker.info_shares
             shares == _normalize_shares_for_eps(found, net_income)
         IN  IF _is_number_cell(shares) /\ shares.v # 0
             THEN EpsQuotient(net_income, shares)
             ELSE NoNum

\* lines 1383-1424: the reported EPS of the calendar entry nearest to the
\* period end, entries from 120 days before it to 180 days after it first;
\* latest_period < 0 stands for None
_extract_eps_from_earnings_dates(ticker, latest_period) ==
    LET df         == ticker.earnings_dates
        candidates == { i \in 1..Len(df) : _is_number_cell(df[i].eps) }
        Abs(x)     == IF x < 0 THEN 0 - x ELSE x
        delta(i)   == df[i].date - latest_period
        key(i)     == IF latest_period < 0 THEN <<1, 999999>>
                      ELSE <<IF delta(i) >= 0 - 120 /\ delta(i) <= 180 THEN 0 ELSE 1,
                             Abs(delta(i))>>
        Before(i, j) == \/ key(i)[1] < key(j)[1]
                        \/ key(i)[1] = key(j)[1] /\ key(i)[2] < key(j)[2]
                        \/ key(i) = key(j) /\ i <= j
    IN  IF candidates = {} THEN NoNum
        ELSE df[CHOOSE i \in candidates : \A j \in candidates : Before(i, j)].eps

\* an EPS ladder that asks the earnings calendar before the share count
eps_ladder_calendar_first(result, latest_col, ticker) ==
    LET stmt == _extract_eps_from_income_stmt(latest_col)
        net_income == IF _is_number_cell(result.net_income_b)
                      THEN Num(result.net_income_b.v * 10) ELSE NoNum
        shares == _extract_eps_from_shares_outstanding(ticker, net_income)
        dates  == _extract_eps_from_earnings_dates(ticker, result.latest_period)
    IN  IF _is_number_cell(result.eps) THEN [eps |-> result.eps, rungs |-> <<"a">>]
        ELSE IF _is_number_cell(stmt.eps) THEN stmt
        ELSE IF _is_number_cell(dates) THEN [eps |-> dates, rungs |-> stmt.rungs \o <<"e">>]
        ELSE [eps |-> shares, rungs |-> stmt.rungs \o <<"e", "d">>]

\* lines 1616-1627 (1647-1658 for the annual frame): the EPS of the snapshot
\* and the rungs gone through; net_income_b is in hundredths of a billion
eps_ladder(result, latest_col, ticker) ==
    LET stmt == _extract_eps_from_income_stmt(latest_col)
        net_income == IF _is_number_cell(result.net_income_b)
                      THEN Num(result.net_income_b.v * 10) ELSE NoNum
        shares == _extract_eps_from_shares_outstanding(ticker, net_income)
        dates  == _extract_eps_from_earnings_dates(ticker, result.latest_period)
    IN  IF _is_number_cell(result.eps) THEN [eps |-> result.eps, rungs |-> <<"a">>]
        ELSE IF _is_number_cell(stmt.eps) THEN stmt
        ELSE IF _is_number_cell(shares) THEN [eps |-> shares, rungs |-> stmt.rungs \o <<"d">>]
        ELSE [eps |-> dates, rungs |-> stmt.rungs \o <<"d", "e">>]

\* lines 1605-1674 of _get_financial_from_yfinance: the quarterly frame when
\* it has data, else the annual one, else the empty snapshot
financial_from_statements(ticker) ==
    LET period_type == IF ticker.quarterly # <<>> THEN "quarterly" ELSE "annual"
        frame  == IF ticker.quarterly # <<>> THEN ticker.quarterly ELSE ticker.annual
        result == _build_financial_from_income_stmt(frame, period_type)
        ladder == eps_ladder(result, result.latest_col, ticker)
    IN  IF frame = <<>>
        THEN [result EXCEPT !.latest_period_type = Null] @@ [rungs |-> <<>>]
        ELSE [result EXCEPT !.eps = ladder.eps] @@ [rungs |-> ladder.rungs]

----------------------------------------------------------------------------
(* SpecCalc: the pure functions of the engine.  Init draws the arguments   *)
(* of one call; the action of the function called applies it.              *)

\* scraped forecasts: the five valuation fields all found or all missing
ScrapedForecasts ==
    { [k \in ForecastKeys |->
          CASE k = "currency" -> c
            [] k = "next_earnings_date" -> d
            [] k \in ScrapedOnlyKeys -> v
            [] k = "eps_forecast" -> e[1]
            [] k = "next_year_eps_forecast" -> e[2]
            [] OTHER -> e[3]] :
        c \in {Null, "HKD"}, d \in {Null, "2026-01-30"}, v \in {Null, "17.5"},
        e \in [1..3 -> {Null, "1.5"}] }

\* library predictions: _round gives a float (0.0 included) or None
LibraryPredictions ==
    { [k \in PredictionKeys |->
          CASE k = "currency" -> c
            [] k = "next_earnings_date" -> d
            [] k = "eps_forecast" -> e[1]
            [] k = "next_year_eps_forecast" -> e[2]
            [] OTHER -> e[3]] :
        c \in {Null, "USD"}, d \in {Null, "2026-02-15"},
        e \in [1..3 -> {Null, "0.0", "2.5"}] }

ForecastMergeInputs ==
    { [op |-> "input", fn |-> "forecast_update", forecast |-> f, yfinance_prediction |-> p] :
        f \in ScrapedForecasts, p \in LibraryPredictions }

ForecastMergeCall ==
    /\ calc.op = "input"
    /\ calc.fn = "forecast_update"
    /\ calc' = [calc EXCEPT !.op = "output"] @@
               [merged |-> forecast_update(calc.forecast, calc.yfinance_prediction)]
    /\ UNCHANGED <<cache, now, api, lastw, mrg, fetch, req, units, results, out, thr, lock>>

\* C14: in the forecast merge each of eps_forecast, next_year_eps_forecast,
\* next_quarter_eps_forecast and currency is the statistics-library value
\* when that value is present and the scraped value otherwise, and forward_pe,
\* peg, ev_to_ebitda, ps and pb keep the scraped values.
C14_LibraryEstimatesTakePrecedence ==
    (calc.op = "output" /\ calc.fn = "forecast_update") =>
        /\ \A k \in EpsKeys \cup {"currency"} :
              calc.merged[k] = IF calc.yfinance_prediction[k] # Null
                               THEN calc.yfinance_prediction[k]
                               ELSE calc.forecast[k]
        /\ \A k \in ScrapedOnlyKeys : calc.merged[k] = calc.forecast[k]

\* the library's estimate 0.0 replaced the scraped 1.5, a field the library
\* lacks kept the scraped value, and the scraped valuation fields are there
C14_Witness ==
    /\ calc.op = "output"
    /\ calc.fn = "forecast_update"
    /\ calc.yfinance_prediction["eps_forecast"] = "0.0"
    /\ calc.forecast["eps_forecast"] = "1.5"
    /\ calc.merged["eps_forecast"] = "0.0"
    /\ calc.yfinance_prediction["next_year_eps_forecast"] = Null
    /\ calc.merged["next_year_eps_forecast"] = "1.5"
    /\ calc.yfinance_prediction["currency"] = "USD"
    /\ calc.forecast["currency"] = "HKD"
    /\ calc.merged["currency"] = "USD"
    /\ calc.merged["forward_pe"] = "17.5"

\* the most issues one pipeline run records, in the collector's calls drawn
MaxIssues == 3

\* what a run records: the chart helper is called by both realtime adapters
\* (lines 647 and 2013), so the same failure can be recorded twice
IssueEvents ==
    { <<"yahoo.chart", TimeoutErr>>, <<"yahoo.chart", HttpErr>>,
      <<"finnhub/quote", HttpErr>>, <<"yahoo.rss", TimeoutErr>> }

CollectorInputs ==
    { [op |-> "input", fn |-> "issue_collection", records |-> r] :
        r \in UNION { [1..n -> IssueEvents] : n \in 0..MaxIssues } }

\* the collector's list after _record_fetch_issue was called for each record
RECURSIVE RecordAll(_, _)
RecordAll(records, issues) ==
    IF records = <<>> THEN issues
    ELSE RecordAll(Tail(records),
                   _record_fetch_issue(issues, Head(records)[1], Head(records)[2]))

\* _start_issue_collection, the records of the run, _finish_issue_collection
CollectorCall ==
    /\ calc.op = "input"
    /\ calc.fn = "issue_collection"
    /\ LET items == RecordAll(calc.records, <<>>)
       IN  calc' = [calc EXCEPT !.op = "output"] @@
                   [items |-> items, warnings |-> _finish_issue_collection(items)]
    /\ UNCHANGED <<cache, now, api, lastw, mrg, fetch, req, units, results, out, thr, lock>>

\* C15: the warnings of a Bundle never hold two entries with the same
\* (source, message, status_code), and every distinct triple recorded during
\* the run appears in them exactly once.
C15_WarningsAreDeduplicated ==
    (calc.op = "output" /\ calc.fn = "issue_collection") =>
        /\ \A i, j \in 1..Len(calc.warnings) :
              IssueKey(calc.warnings[i]) = IssueKey(calc.warnings[j]) => i = j
        /\ { IssueKey(calc.warnings[i]) : i \in 1..Len(calc.warnings) } =
           { IssueKey(calc.items[i]) : i \in 1..Len(calc.items) }
        /\ \A i \in 1..Len(calc.warnings) :
              \E j \in 1..Len(calc.items) : calc.warnings[i] = calc.items[j]

\* the same chart failure was recorded twice with another issue between, and
\* the warnings hold it once
C15_Witness ==
    /\ calc.op = "output"
    /\ calc.fn = "issue_collection"
    /\ Len(calc.items) = 3
    /\ calc.items[1] = calc.items[3]
    /\ calc.items[1] # calc.items[2]
    /\ calc.warnings = <<calc.items[1], calc.items[2]>>

\* the most columns a statement frame of the model has
MaxCols == 3

FrameLabels ==
    {"Total Revenue", "Gross Profit", "Operating Income", "Net Income", "Diluted EPS",
     "Diluted NI Availto Com Stockholders", "Diluted Average Shares", "Basic Average Shares"}

\* the cells of a column: the four core rows and the reported EPS
Cells(revenue, gross, operating, net, eps) ==
    [l \in FrameLabels |->
        CASE l = "Total Revenue" -> revenue
          [] l = "Gross Profit" -> gross
          [] l = "Operating Income" -> operating
          [] l = "Net Income" -> net
          [] l = "Diluted EPS" -> eps
          [] OTHER -> NoNum]

\* columns as the library delivers them: complete, partly filled, and with
\* an EPS but every core row NaN
ColumnCells ==
    { Cells(NoNum, NoNum, NoNum, NoNum, Num(150)),
      Cells(Num(100), Num(40), Num(30), Num(20), Num(200)),
      Cells(Num(80), Num(30), Num(20), Num(10), NoNum),
      Cells(NoNum, NoNum, NoNum, Num(16), NoNum) }

\* period ends a year apart, in days
FrameDates == { 365 * i : i \in 1..MaxCols }

\* frames of up to MaxCols columns with different dates, in any order
Frames ==
    UNION { { df \in [1..n -> [date : FrameDates, cells : ColumnCells]] :
                \A i, j \in 1..n : df[i].date = df[j].date => i = j } : n \in 0..MaxCols }

FrameInputs ==
    { [op |-> "input", fn |-> "build_financial", df |-> df, period_type |-> t] :
        df \in Frames, t \in {"annual", "quarterly"} }

FrameCall ==
    /\ calc.op = "input"
    /\ calc.fn = "build_financial"
    /\ calc' = [calc EXCEPT !.op = "output"] @@
               [result |-> _build_financial_from_income_stmt(calc.df, calc.period_type)]
    /\ UNCHANGED <<cache, now, api, lastw, mrg, fetch, req, units, results, out, thr, lock>>

\* the columns of the frame of the last call
FrameColumns == { calc.df[i] : i \in 1..Len(calc.df) }

BuiltFrame ==
    /\ calc.op = "output"
    /\ calc.fn = "build_financial"
    /\ calc.df # <<>>

\* C16, as the claim has it: the column chosen is the newest column with a
\* number in one of revenue, gross profit, operating income and net income,
\* and every newer column has none.
C16_LatestIsNewestUsable_Claimed ==
    BuiltFrame =>
        /\ CoreUsable(calc.result.latest_col)
        /\ \A c \in FrameColumns :
              c.date > calc.result.latest_col.date => ~CoreUsable(c)

\* C16: the column chosen is the newest column with a number in one of the
\* four core rows, every newer column having none; when no column of the
\* frame has such a number, it is the newest column of the frame.
C16_LatestIsNewestUsable ==
    BuiltFrame =>
        /\ calc.result.latest_col \in FrameColumns
        /\ \A c \in FrameColumns :
              c.date > calc.result.latest_col.date => ~CoreUsable(c)
        /\ (\E c \in FrameColumns : CoreUsable(c)) => CoreUsable(calc.result.latest_col)
        /\ (\A c \in FrameColumns : ~CoreUsable(c)) =>
              \A c \in FrameColumns : c.date <= calc.result.latest_col.date

\* the newest column has an EPS but no core number and the one before it was
\* chosen
C16_Witness ==
    /\ BuiltFrame
    /\ Len(calc.df) = 3
    /\ \E c \in FrameColumns :
          /\ c.date > calc.result.latest_col.date
          /\ _is_number_cell(c.cells["Diluted EPS"])
          /\ ~CoreUsable(c)
    /\ CoreUsable(calc.result.latest_col)
    /\ \E c \in FrameColumns : c.date < calc.result.latest_col.date

\* the column next older than col in the frame, NoColumn when col is the oldest
NextOlder(col) ==
    LET older == { c \in FrameColumns : c.date < col.date }
    IN  IF older = {} THEN NoColumn
        ELSE CHOOSE c \in older : \A d \in older : d.date <= c.date

\* C17: for an annual frame, whichever column was chosen as the latest, the
\* comparison column is the column just before it (the next older period),
\* and revenue_yoy_pct and net_income_yoy_pct are computed against it.
C17_AnnualComparesWithNextOlder ==
    (BuiltFrame /\ calc.period_type = "annual") =>
        LET prev == NextOlder(calc.result.latest_col)
        IN  /\ calc.result.prev_col = prev
            /\ calc.result.revenue_yoy_pct =
                  _pct_change(_extract_income_stmt_value(calc.result.latest_col, revenue_aliases),
                              _extract_income_stmt_value(prev, revenue_aliases))
            /\ calc.result.net_income_yoy_pct =
                  _pct_change(_extract_income_stmt_value(calc.result.latest_col, net_income_aliases),
                              _extract_income_stmt_value(prev, net_income_aliases))

\* the cells of a column with revenue reported: the EPS row, the diluted net
\* income, the net income and the two average share counts
LadderCells(eps, diluted_ni, net, diluted_shares, basic_shares) ==
    [l \in FrameLabels |->
        CASE l = "Total Revenue" -> Num(100)
          [] l = "Net Income" -> net
          [] l = "Diluted EPS" -> eps
          [] l = "Diluted NI Availto Com Stockholders" -> diluted_ni
          [] l = "Diluted Average Shares" -> diluted_shares
          [] l = "Basic Average Shares" -> basic_shares
          [] OTHER -> NoNum]

LadderColumns ==
    { [date |-> 730, cells |-> LadderCells(eps, dni, net, dsh, bsh)] :
        eps \in {NoNum, Num(200)}, dni \in {NoNum, Num(18)},
        net \in {NoNum, Num(16), Num(20), Num(200)},
        dsh \in {NoNum, Num(0), Num(500), Num(50000)},
        bsh \in {NoNum, Num(40000)} }

\* a newer column that reports an EPS and none of the core rows
StubColumn == [date |-> 1095, cells |-> Cells(NoNum, NoNum, NoNum, NoNum, Num(150))]

\* earnings calendars: empty, an entry without a reported EPS, an entry
\* 300 days before the period end, and that entry with one 40 days after it
Calendars ==
    { <<>>,
      <<[date |-> 1100, eps |-> NoNum]>>,
      <<[date |-> 430, eps |-> Num(90)]>>,
      <<[date |-> 430, eps |-> Num(90)], [date |-> 770, eps |-> Num(120)]>> }

Tickers ==
    { [quarterly |-> IF kind = "quarterly" THEN frame ELSE <<>>,
       annual |-> IF kind = "annual" THEN frame ELSE <<>>,
       fast_info_shares |-> fast, info_shares |-> info, earnings_dates |-> dates] :
        kind \in {"quarterly", "annual", "none"},
        frame \in UNION { {<<c>>, <<c, StubColumn>>} : c \in LadderColumns },
        fast \in {NoNum, Num(25000)}, info \in {NoNum, Num(20000)},
        dates \in Calendars }

TickerInputs == { [op |-> "input", fn |-> "financial", ticker |-> t] : t \in Tickers }

FinancialCall ==
    /\ calc.op = "input"
    /\ calc.fn = "financial"
    /\ calc' = [calc EXCEPT !.op = "output"] @@
               [result |-> financial_from_statements(calc.ticker)]
    /\ UNCHANGED <<cache, now, api, lastw, mrg, fetch, req, units, results, out, thr, lock>>

\* a snapshot was built from a statement frame of the ticker
BuiltSnapshot ==
    /\ calc.op = "output"
    /\ calc.fn = "financial"
    /\ calc.ticker.quarterly # <<>> \/ calc.ticker.annual # <<>>

\* the cell of the chosen column under a row label
LatestCell(label) == calc.result.latest_col.cells[label]

\* the value of a rung for the ticker of the last call, NoNum when the rung
\* does not succeed: (a) the reported EPS row, (b) diluted net income over
\* diluted average shares, (c) net income over basic average shares, (d) the
\* snapshot's net income over the shares outstanding, (e) the calendar
Rung(r) ==
    LET Over(ni, raw) ==
            LET shares == _normalize_shares_for_eps(raw, ni)
            IN  IF _is_number_cell(ni) /\ _is_number_cell(shares)
                THEN EpsQuotient(ni, shares) ELSE NoNum
        diluted_ni == IF _is_number_cell(LatestCell("Diluted NI Availto Com Stockholders"))
                      THEN LatestCell("Diluted NI Availto Com Stockholders")
                      ELSE LatestCell("Net Income")
        outstanding == IF _is_number_cell(calc.ticker.fast_info_shares)
                       THEN calc.ticker.fast_info_shares ELSE calc.ticker.info_shares
        snapshot_ni == IF _is_number_cell(calc.result.net_income_b)
                       THEN Num(calc.result.net_income_b.v * 10) ELSE NoNum
    IN  CASE r = "a" -> LatestCell("Diluted EPS")
          [] r = "b" -> Over(diluted_ni, LatestCell("Diluted Average Shares"))
          [] r = "c" -> Over(LatestCell("Net Income"), LatestCell("Basic Average Shares"))
          [] r = "d" -> Over(snapshot_ni, outstanding)
          [] r = "e" -> _extract_eps_from_earnings_dates(calc.ticker, calc.result.latest_period)

LadderOrder == <<"a", "b", "c", "d", "e">>

\* C18: the snapshot's EPS is the value of the first rung, in the order (a)
\* reported EPS row, (b) diluted net income over diluted average shares, (c)
\* basic net income over basic average shares, (d) net income over shares
\* outstanding, (e) nearest earnings-calendar EPS, that yields a number, and
\* no rung after that one is gone through; it is null when no rung does.
C18_EpsIsFirstSuccessfulRung ==
    BuiltSnapshot =>
        /\ \A i \in 1..5 :
              (/\ _is_number_cell(Rung(LadderOrder[i]))
               /\ \A j \in 1..(i - 1) : ~_is_number_cell(Rung(LadderOrder[j])))
              => /\ calc.result.eps = Rung(LadderOrder[i])
                 /\ calc.result.rungs = SubSeq(LadderOrder, 1, i)
        /\ (\A i \in 1..5 : ~_is_number_cell(Rung(LadderOrder[i])))
              => ~_is_number_cell(calc.result.eps)

\* the EPS came from the shares outstanding although the calendar has a
\* reported EPS as well
C18_Witness ==
    /\ BuiltSnapshot
    /\ calc.result.rungs = <<"a", "b", "c", "d">>
    /\ _is_number_cell(calc.result.eps)
    /\ _is_number_cell(Rung("e"))
    /\ calc.result.eps # Rung("e")

CurrencySymbols ==
    {"", " ", "a", "A$", "NVDA", "0700.HK", "600000.SS", "BF.B", " bf.b", "BRK.A", "7203.T",
     "VOD.L", "RY.V", "0005.B", "A.B.C", "X.YZ", "X."}

CurrencyInputs == { [op |-> "input", fn |-> "infer_currency", symbol |-> s] : s \in CurrencySymbols }

InferCurrencyCall ==
    /\ calc.op = "input"
    /\ calc.fn = "infer_currency"
    /\ calc' = [calc EXCEPT !.op = "output"] @@
               [currency |-> _infer_currency_from_symbol(calc.symbol)]
    /\ UNCHANGED <<cache, now, api, lastw, mrg, fetch, req, units, results, out, thr, lock>>

\* the symbol of the last call has a dot and one letter after its last dot
SingleLetterSuffix ==
    /\ calc.op = "output"
    /\ calc.fn = "infer_currency"
    /\ LET raw == RawSymbol(calc.symbol)
       IN  /\ \E i \in 1..Len(raw) : raw[i] = "."
           /\ Len(rsplit(raw).suffix) = 1
           /\ rsplit(raw).suffix[1] \in Letters

\* C20, as the claim has it: a symbol with a single letter after its last
\* dot is inferred to be in USD, never in an exchange's currency, never null.
C20_SingleLetterSuffixIsUsd_Claimed ==
    SingleLetterSuffix => calc.currency = "USD"

\* C20: for a symbol with a single letter after its last dot, the inferred
\* currency is the suffix table's when the letter is one of its keys (T, L,
\* V); otherwise it is USD when the part before the dot is made of letters
\* only, and null when it is not.
C20_SingleLetterSuffixIsUsd ==
    SingleLetterSuffix =>
        LET raw    == RawSymbol(calc.symbol)
            suffix == rsplit(raw).suffix
            base   == rsplit(raw).base
        IN  IF suffix \in {<<"T">>, <<"L">>, <<"V">>}
            THEN calc.currency = CASE suffix = <<"T">> -> "JPY"
                                   [] suffix = <<"L">> -> "GBP"
                                   [] suffix = <<"V">> -> "CAD"
            ELSE IF isalpha(base) THEN calc.currency = "USD"
            ELSE calc.currency = Null

\* BF.B, typed in lower case with a blank before it, came out as USD
C20_Witness ==
    /\ SingleLetterSuffix
    /\ calc.symbol = " bf.b"
    /\ calc.currency = "USD"

\* the most rows an earnings history of the model has
MaxRecords == 5

\* surprises of a row: none, a beat, a miss, inline
Surprises == {NoNum, Num(400), Num(0 - 400), Num(20)}

\* earnings histories, oldest row first or newest row first
Histories ==
    UNION { UNION { { [i \in 1..n |-> [quarter |-> 90 * i, surprise_pct |-> f[i]]],
                      [i \in 1..n |-> [quarter |-> 90 * (n + 1 - i), surprise_pct |-> f[i]]] } :
                    f \in [1..n -> Surprises] } : n \in 0..MaxRecords }
        \cup { <<[quarter |-> 0, surprise_pct |-> Num(400)]>> }

\* the EPS trend row: none, or a current estimate of 1.10 against the
\* estimates of 30 and of 90 days ago
TrendRow(d30, d90) == [period |-> "+1y", current |-> Num(110), d30 |-> d30, d90 |-> d90]

TrendRows ==
    { <<>> } \cup
    { TrendRow(p[1], p[2]) :
        p \in { <<NoNum, NoNum>>, <<Num(105), Num(100)>>, <<Num(105), NoNum>>,
                <<Num(120), NoNum>>, <<Num(110), Num(108)>>, <<NoNum, Num(0)>>,
                <<Num(100), Num(114)>> } }

\* no trend, a trend revised up and a trend revised down
MainTrendRows == { <<>>, TrendRow(Num(105), Num(100)), TrendRow(Num(100), Num(114)) }

\* no history, and a single beat
EdgeHistories == { <<>>, <<[quarter |-> 90, surprise_pct |-> Num(400)]>> }

\* what the library holds: every history with the main trends, and every
\* trend row with the edge histories
ExpectationTickers ==
    { [earnings_history |-> h, eps_trend |-> t] : h \in Histories, t \in MainTrendRows }
        \cup { [earnings_history |-> h, eps_trend |-> t] : h \in EdgeHistories, t \in TrendRows }

\* the expectation step of a fetch: what the library holds, and whether
\* reading it raises
ExpectationInputs ==
    { [op |-> "input", fn |-> "expectation", raises |-> FALSE, ticker |-> k] :
        k \in ExpectationTickers }
        \cup { [op |-> "input", fn |-> "expectation", raises |-> TRUE,
                ticker |-> [earnings_history |-> h, eps_trend |-> t]] :
                 h \in EdgeHistories, t \in MainTrendRows }

\* lines 2710-2717 of _get_stock_bundle_inner
ExpectationCall ==
    /\ calc.op = "input"
    /\ calc.fn = "expectation"
    /\ calc' = [calc EXCEPT !.op = "output"] @@
               [expectation_guidance |->
                    IF calc.raises THEN _empty_expectation_guidance_snapshot
                    ELSE _build_expectation_guidance_snapshot(calc.ticker)]
    /\ UNCHANGED <<cache, now, api, lastw, mrg, fetch, req, units, results, out, thr, lock>>

ExpectationDone == calc.op = "output" /\ calc.fn = "expectation"

\* the composite score of a snapshot, from its classification fields
Score(snapshot) ==
    LET b == snapshot.beat_miss
        t == snapshot.eps_trend
    IN  (IF b.latest_result = "beat" THEN 1 ELSE IF b.latest_result = "miss" THEN 0 - 1 ELSE 0)
      + (IF b.beat_streak_4q >= 3 THEN 1 ELSE IF b.miss_count_4q >= 2 THEN 0 - 1 ELSE 0)
      + (IF t.signal = "up" THEN 1 ELSE IF t.signal = "down" THEN 0 - 1 ELSE 0)

\* one of the three terms of the score is not zero
HasSignal(snapshot) ==
    \/ snapshot.beat_miss.latest_result \in {"beat", "miss"}
    \/ snapshot.beat_miss.beat_streak_4q >= 3
    \/ snapshot.beat_miss.miss_count_4q >= 2
    \/ snapshot.eps_trend.signal \in {"up", "down"}

\* the overall text the score of a snapshot calls for
OverallFor(snapshot) ==
    IF ~HasSignal(snapshot) THEN OverallInsufficientText
    ELSE IF Score(snapshot) >= 2 THEN OverallPositiveText
    ELSE IF Score(snapshot) <= 0 - 2 THEN OverallCautiousText
    ELSE OverallMixedText

\* C21, as the claim has it: the overall conclusion is always one of the four
\* fixed texts: positive for a score of 2 or more, cautious for -2 or less,
\* mixed in between when a signal exists, insufficient when none does.
C21_OverallIsOneOfFourTexts_Claimed ==
    ExpectationDone =>
        /\ calc.expectation_guidance.conclusion.overall \in
              {OverallPositiveText, OverallCautiousText, OverallMixedText,
               OverallInsufficientText}
        /\ calc.expectation_guidance.conclusion.overall = OverallFor(calc.expectation_guidance)

\* C21: the overall conclusion is always a fixed text and never a raw score.
\* When the snapshot was built it is one of four texts: positive for a score
\* of 2 or more, cautious for -2 or less, mixed in between when a signal
\* exists, insufficient when none does.  When building the snapshot raised,
\* it is the empty snapshot's own, fifth, insufficient text.
C21_OverallIsOneOfFourTexts ==
    ExpectationDone =>
        IF calc.raises
        THEN calc.expectation_guidance.conclusion.overall = OverallEmptyText
        ELSE calc.expectation_guidance.conclusion.overall = OverallFor(calc.expectation_guidance)

\* a beat and a rising trend against two misses in the last four quarters:
\* a score of 1 and the mixed text
C21_Witness ==
    /\ ExpectationDone
    /\ ~calc.raises
    /\ calc.expectation_guidance.beat_miss.latest_result = "beat"
    /\ calc.expectation_guidance.beat_miss.miss_count_4q >= 2
    /\ calc.expectation_guidance.eps_trend.signal = "up"
    /\ Score(calc.expectation_guidance) = 1
    /\ calc.expectation_guidance.conclusion.overall = OverallMixedText

\* the rows of the history of the last call that carry a quarter
DatedRows ==
    { i \in 1..Len(calc.ticker.earnings_history) : calc.ticker.earnings_history[i].quarter # 0 }

\* the history of the last call gives no surprise for its latest quarter
NoLatestSurprise ==
    \/ DatedRows = {}
    \/ \E i \in DatedRows :
          /\ \A j \in DatedRows : calc.ticker.earnings_history[j].quarter
                                    <= calc.ticker.earnings_history[i].quarter
          /\ ~_is_number_cell(calc.ticker.earnings_history[i].surprise_pct)

\* the trend row of the last call is missing, or has no current estimate, or
\* no earlier estimate other than zero to compare it with
NoTrendData ==
    \/ calc.ticker.eps_trend = <<>>
    \/ ~_is_number_cell(calc.ticker.eps_trend.current)
    \/ \A d \in {calc.ticker.eps_trend.d30, calc.ticker.eps_trend.d90} :
          ~_is_number_cell(d) \/ d.v = 0

\* C22: the expectation snapshot put into a Bundle has all of its sections
\* (beat_miss, guidance, eps_trend, conclusion), each with its classification
\* field set; when the data of a section are absent, or building the
\* snapshot raised, latest_result (signal for eps_trend and guidance) is
\* "insufficient", never null or missing.
C22_SnapshotFullyPopulated ==
    ExpectationDone =>
        LET eg == calc.expectation_guidance
        IN  /\ DOMAIN eg = {"beat_miss", "guidance", "eps_trend", "conclusion"}
            /\ "latest_result" \in DOMAIN eg.beat_miss
            /\ "signal" \in DOMAIN eg.eps_trend
            /\ "signal" \in DOMAIN eg.guidance
            /\ eg.beat_miss.latest_result \in {"beat", "miss", "inline", "insufficient"}
            /\ eg.eps_trend.signal \in {"up", "down", "flat", "insufficient"}
            /\ eg.guidance.signal = "insufficient"
            /\ (calc.raises \/ NoLatestSurprise) => eg.beat_miss.latest_result = "insufficient"
            /\ (calc.raises \/ NoTrendData) => eg.eps_trend.signal = "insufficient"

\* a history whose latest quarter has no surprise, with a trend that has data:
\* one section insufficient next to one that is classified
C22_Witness ==
    /\ ExpectationDone
    /\ ~calc.raises
    /\ Len(calc.ticker.earnings_history) >= 2
    /\ NoLatestSurprise
    /\ ~NoTrendData
    /\ calc.expectation_guidance.beat_miss.latest_result = "insufficient"
    /\ calc.expectation_guidance.eps_trend.signal = "down"

\* the rows of the extractor's frames: the usual revenue and EPS rows, a
\* revenue row under another name, and a bare EPS row; each with its own
\* figure, so that a value tells its row
ExtractFigure(label) ==
    CASE label = "Total Revenue" -> Num(100)
      [] label = "Operating Revenue" -> Num(90)
      [] label = "Diluted EPS" -> Num(7)
      [] OTHER -> Num(8)

ExtractLabels == {"Total Revenue", "Operating Revenue", "Diluted EPS", "EPS"}

ExtractColumns ==
    UNION { { [date |-> 1, cells |-> [idx \in present |->
                                        IF idx \in filled THEN ExtractFigure(idx) ELSE NoNum]] :
                filled \in SUBSET present } : present \in SUBSET ExtractLabels }

ExtractInputs ==
    { [op |-> "input", fn |-> "extract", column |-> c, aliases |-> a] :
        c \in ExtractColumns, a \in {revenue_aliases, eps_aliases} }

\* _extract_income_stmt_value(df, column, aliases) on one column of a frame
ExtractCall ==
    /\ calc.op = "input"
    /\ calc.fn = "extract"
    /\ calc' = [calc EXCEPT !.op = "output"] @@
               [value |-> _extract_income_stmt_value(calc.column, calc.aliases)]
    /\ UNCHANGED <<cache, now, api, lastw, mrg, fetch, req, units, results, out, thr, lock>>

ExtractDone == calc.op = "output" /\ calc.fn = "extract"

\* the synonyms of the call, by position
AliasesAt(I) == { calc.aliases[i] : i \in I }

\* no row label equals a synonym after normalisation
NoExactRow == \A alias \in AliasesAt(1..Len(calc.aliases)) : ExactRows(calc.column, alias) = {}

\* the rows whose label contains a synonym or is contained in one
SubstringMatches ==
    UNION { SubstringRows(calc.column, alias) : alias \in AliasesAt(1..Len(calc.aliases)) }

CalcInputs ==
    ForecastMergeInputs \cup CollectorInputs \cup FrameInputs \cup TickerInputs
        \cup CurrencyInputs \cup ExpectationInputs \cup ExtractInputs

InitCalc ==
    /\ calc \in CalcInputs
    /\ cache = EmptyCache
    /\ now = 0
    /\ api = IdleApi
    /\ lastw = IdleLastw
    /\ mrg = IdleMrg
    /\ fetch = IdleFetch
    /\ req = IdleReq
    /\ units = <<>>
    /\ results = <<>>
    /\ out = <<>>
    /\ thr = IdleThr
    /\ lock = IdleLock

NextCalc ==
    \/ ForecastMergeCall
    \/ CollectorCall
    \/ FrameCall
    \/ FinancialCall
    \/ InferCurrencyCall
    \/ ExpectationCall
    \/ ExtractCall

SpecCalc == InitCalc /\ [][NextCalc]_vars

----------------------------------------------------------------------------
(* SpecUnits: the worker threads of the pool, each running one unit        *)
(* (get_stock_bundle) after another.  The issue list lives in the context  *)
(* variable _FETCH_ISSUES; a thread's context outlives the unit it ran.    *)

PoolThreads == {1, 2}

\* the value of a context variable that was never set: default=None
Unset == [set |-> FALSE, items |-> <<>>]

\* what one unit's sources can record
UnitEvents == { <<"yahoo.chart", TimeoutErr>>, <<"yahoo.rss", TimeoutErr>> }

UnitSymbols == {"A", "B"}

IdleWorker ==
    [pc |-> "idle", symbol |-> "", token |-> Unset, own |-> <<>>,
     warnings |-> <<>>, before |-> "none", _FETCH_ISSUES |-> Unset]

\* one variable for the whole process instead of one per context
shared_context(t) == 1

\* _FETCH_ISSUES = ContextVar(...): get, set and reset act on the context of
\* the calling thread
_FETCH_ISSUES_context(t) == t

\* _start_issue_collection: _FETCH_ISSUES.set([]) and its token, the value
\* the variable had before
_start_issue_collection(value) == [value |-> [set |-> TRUE, items |-> <<>>], token |-> value]

InitUnits ==
    /\ thr = [t \in PoolThreads |-> IdleWorker]
    /\ mrg = IdleMrg
    /\ cache = EmptyCache
    /\ now = 0
    /\ lock = IdleLock
    /\ lastw = IdleLastw
    /\ api = IdleApi
    /\ fetch = IdleFetch
    /\ req = IdleReq
    /\ units = <<>>
    /\ results = <<>>
    /\ out = <<>>
    /\ calc = IdleCalc

\* get_stock_bundle line 2582, on a pool thread that took the unit
UnitBegin(t, symbol) ==
    /\ thr[t].pc = "idle"
    /\ LET c == _FETCH_ISSUES_context(t)
           started == _start_issue_collection(thr[c]._FETCH_ISSUES)
       IN  thr' = [thr EXCEPT ![c]._FETCH_ISSUES = started.value,
                              ![t].pc = "running",
                              ![t].symbol = symbol,
                              ![t].token = started.token]
    /\ UNCHANGED <<cache, now, api, lastw, mrg, fetch, req, units, results, out, lock, calc>>

\* a source of the unit fails and its call site calls _record_fetch_issue
\* (lines 91-93: appended when the variable holds a list)
UnitRecord(t, event) ==
    /\ thr[t].pc = "running"
    /\ Len(thr[t].own) < MaxIssues
    /\ LET c == _FETCH_ISSUES_context(t)
       IN  thr' = [thr EXCEPT
                     ![c]._FETCH_ISSUES =
                         IF @.set
                         THEN [@ EXCEPT !.items = _record_fetch_issue(@, event[1], event[2])]
                         ELSE @,
                     ![t].own = _record_fetch_issue(@, event[1], event[2])]
    /\ UNCHANGED <<cache, now, api, lastw, mrg, fetch, req, units, results, out, lock, calc>>

\* lines 2589-2594: the finally block reads the list, resets the variable to
\* the token's value and deduplicates; the Bundle gets the issues
UnitReturn(t) ==
    /\ thr[t].pc = "running"
    /\ LET c == _FETCH_ISSUES_context(t)
           items == IF thr[c]._FETCH_ISSUES.set THEN thr[c]._FETCH_ISSUES.items ELSE <<>>
       IN  thr' = [thr EXCEPT ![c]._FETCH_ISSUES = thr[t].token,
                              ![t].pc = "returned",
                              ![t].warnings = _finish_issue_collection(items)]
    /\ UNCHANGED <<cache, now, api, lastw, mrg, fetch, req, units, results, out, lock, calc>>

\* _get_stock_bundle_inner raises: the finally block still runs, the
\* exception goes on to the future and the issues are dropped
UnitRaise(t) ==
    /\ thr[t].pc = "running"
    /\ LET c == _FETCH_ISSUES_context(t)
       IN  thr' = [thr EXCEPT ![c]._FETCH_ISSUES = thr[t].token,
                              ![t].pc = "raised"]
    /\ UNCHANGED <<cache, now, api, lastw, mrg, fetch, req, units, results, out, lock, calc>>

\* the future is done and the thread takes the next unit from the queue; its
\* context stays as the unit left it
UnitEnd(t) ==
    /\ thr[t].pc \in {"returned", "raised"}
    /\ thr' = [thr EXCEPT ![t] =
                 [IdleWorker EXCEPT
                    !._FETCH_ISSUES = thr[t]._FETCH_ISSUES,
                    !.before = IF thr[t].pc = "returned" THEN "returned"
                               ELSE IF thr[t].own # <<>> THEN "raised_with_issues"
                               ELSE "raised"]]
    /\ UNCHANGED <<cache, now, api, lastw, mrg, fetch, req, units, results, out, lock, calc>>

NextUnits ==
    \/ \E t \in PoolThreads, s \in UnitSymbols : UnitBegin(t, s)
    \/ \E t \in PoolThreads, e \in UnitEvents : UnitRecord(t, e)
    \/ \E t \in PoolThreads : UnitReturn(t)
    \/ \E t \in PoolThreads : UnitRaise(t)
    \/ \E t \in PoolThreads : UnitEnd(t)

SpecUnits == InitUnits /\ [][NextUnits]_vars

\* C24: the warnings of a Bundle are exactly the deduplicated issues its own
\* unit recorded: none from a unit running at the same time on another
\* thread, none left by an earlier unit of the same thread, returned or
\* aborted; and a unit starts with an empty list.
C24_WarningsAreTheUnitsOwn ==
    \A t \in PoolThreads :
        /\ thr[t].pc = "returned" => thr[t].warnings = _finish_issue_collection(thr[t].own)
        /\ thr[t].pc = "running" =>
              /\ thr[t]._FETCH_ISSUES.set
              /\ thr[t]._FETCH_ISSUES.items = thr[t].own

\* a unit returned its own rss issue on a thread whose earlier unit aborted
\* after recording issues, while the other thread's unit holds a chart issue
C24_Witness ==
    \E t, u \in PoolThreads :
        /\ t # u
        /\ thr[t].pc = "returned"
        /\ thr[t].before = "raised_with_issues"
        /\ Len(thr[t].warnings) = 1
        /\ thr[t].warnings[1].source = "yahoo.rss"
        /\ thr[u].pc = "running"
        /\ Len(thr[u].own) > 0
        /\ thr[u].own[1].source = "yahoo.chart"

----------------------------------------------------------------------------
(* Symbol validation.                                                       *)

\* persistence.py line 12: the pattern ^[A-Z0-9.\-]{1,10}$ on the model's
\* symbols
_SYMBOL_PATTERN_match(symbol) == symbol \in {"A", "B", "C"}

\* C19: every symbol for which a unit of work is scheduled is an uppercase
\* string made of letters, digits, '.' and '-' only, 1 to 10 characters
\* long; a token with another character never reaches a source adapter.
C19_ScheduledSymbolsAreValidated ==
    \A i \in 1..Len(units) :
        /\ units[i].symbol = Upper(units[i].symbol)
        /\ _SYMBOL_PATTERN_match(units[i].symbol)

====
